---- MODULE Spec2Model ----
(***************************************************************************)
(* Daily Trendz: the posting-session subsystem.                            *)
(*   lib/scheduler.js  daily counters, caps, category selection            *)
(*   lib/dedupe.js     posted-product map with TTL, cap and JSON file      *)
(*   api/run.js        the handler that drives one posting run             *)
(* Strings that the code normalises (ids, sources, keys) are sequences of  *)
(* tokens, so that toLowerCase and concatenation are computed.             *)
(***************************************************************************)
EXTENDS Integers, Sequences, FiniteSets, TLC

VARIABLES
    cfg,             \* config/limits.json and the environment, read-only
    now,             \* Date.now(), in ticks
    dailyCounters,   \* scheduler.js: let dailyCounters
    postedProducts,  \* dedupe.js: let postedProducts (a Map, insertion ordered)
    file,            \* data/posted.json
    call,            \* the last module-level call: operation, arguments, result
    run,             \* the handler's locals and its position
    hist             \* history of posts and of store events (observation only)

vars == <<cfg, now, dailyCounters, postedProducts, file, call, run, hist>>

----------------------------------------------------------------------------
(* Bounds of the model *)

\* ticks in one calendar day
DayLen == 2
\* last instant the clock reaches
MaxTime == 3
\* deduplication.ttlDays, in days
TTL_DAYS == 1
\* deduplication.maxTrackedProducts
MAX_TRACKED == 1
\* largest count passed to selectCategories
MaxCount == 3
\* longest product list passed to filterDuplicates
MaxItems == 3
\* limits.dailyLimits[source] || 10
DefaultSourceLimit == 10
\* limits.dailyLimits.perCategory || 4
DefaultCategoryLimit == 4
\* limits.posting?.postsPerSlot || 4
DefaultPostsPerSlot == 4
\* scheduler.selectCategories(3) in the handler
SessionCategories == 3

----------------------------------------------------------------------------
(* Time *)

\* new Date().toISOString().split('T')[0]
Today(t) == t \div DayLen

\* dailyCounters.date = null
NullDate == -1

TTL_MS == TTL_DAYS * DayLen

----------------------------------------------------------------------------
(* Configuration: config/categories.json, config/limits.json, process.env *)

Sources == {"flipkart", "amazon"}

\* categories.json: key -> weight and per-source handles
CategoryKeys == <<"mobiles", "fashion">>

categories ==
    [ mobiles |-> [weight |-> 2, flipkartId |-> TRUE,  amazonNode |-> TRUE],
      fashion |-> [weight |-> 1, flipkartId |-> FALSE, amazonNode |-> TRUE] ]

Categories == {CategoryKeys[i] : i \in 1..Len(CategoryKeys)}

\* an environment variable is a string, a sequence of tokens; an unset
\* variable and the empty string are both falsy
Unset == <<>>

\* process.env.OVERRIDE_TOTAL_LIMIT unset
NoOverride == Unset

\* String.prototype.toLowerCase on one token
LowerTok(tok) ==
    CASE tok = "A" -> "a"
      [] tok = "B" -> "b"
      [] tok = "Flipkart" -> "flipkart"
      [] tok = "Amazon" -> "amazon"
      [] tok = "TRUE" -> "true"
      [] tok = "True" -> "true"
      [] OTHER -> tok

toLowerCase(str) == [i \in 1..Len(str) |-> LowerTok(str[i])]

\* the value of a decimal digit
DigitValue(tok) ==
    CASE tok = "0" -> 0
      [] tok = "1" -> 1
      [] tok = "2" -> 2
      [] tok = "3" -> 3

RECURSIVE parseInt(_)
\* parseInt(str, 10) on a decimal numeral, one digit per token
parseInt(str) ==
    IF Len(str) = 1 THEN DigitValue(str[1])
    ELSE 10 * parseInt(SubSeq(str, 1, Len(str) - 1)) + DigitValue(str[Len(str)])

\* a key that limits.json does not hold (undefined)
Undefined == -1

\* process.env.CRON_SECRET unset; a header or query parameter that is absent
NoSecret == <<>>

\* the daily caps, session size and retry settings of limits.json with the
\* environment flags; credentials: TELEGRAM_BOT_TOKEN and TELEGRAM_CHANNEL_ID
\* are both set
ConfigNormal ==
    [total |-> 2, saleMode |-> 3, flipkart |-> 2, amazon |-> 2, perCategory |-> 1,
     postsPerSlot |-> 2, SALE_MODE |-> Unset, OVERRIDE_TOTAL_LIMIT |-> NoOverride,
     retryOnFailure |-> TRUE, maxRetries |-> 1, CRON_SECRET |-> <<"s">>,
     credentials |-> TRUE]

ConfigSale ==
    [total |-> 2, saleMode |-> 3, flipkart |-> 2, amazon |-> 1, perCategory |-> 2,
     postsPerSlot |-> 1, SALE_MODE |-> <<"true">>, OVERRIDE_TOTAL_LIMIT |-> NoOverride,
     retryOnFailure |-> FALSE, maxRetries |-> 1, CRON_SECRET |-> NoSecret,
     credentials |-> TRUE]

ConfigOverride ==
    [total |-> 3, saleMode |-> 3, flipkart |-> 1, amazon |-> 2, perCategory |-> 2,
     postsPerSlot |-> 3, SALE_MODE |-> <<"TRUE">>, OVERRIDE_TOTAL_LIMIT |-> <<"1">>,
     retryOnFailure |-> TRUE, maxRetries |-> 1, CRON_SECRET |-> <<"s">>,
     credentials |-> TRUE]

Configs == {ConfigNormal, ConfigSale, ConfigOverride}

\* JavaScript  v || d  on a number: 0 and undefined both give d
OrDefault(v, d) == IF v = 0 \/ v = Undefined THEN d ELSE v

Min(a, b) == IF a <= b THEN a ELSE b

----------------------------------------------------------------------------
(* lib/scheduler.js *)

ZeroCounters(d) ==
    [flipkart |-> 0, amazon |-> 0, total |-> 0,
     byCategory |-> [c \in Categories |-> 0], date |-> d]

\* the module-level initialiser of dailyCounters, and resetCounters()
FreshCounters == ZeroCounters(NullDate)

\* variant: the stored day is not compared with today
initCounters_ForceOnly(dc, force, t) ==
    IF force THEN ZeroCounters(Today(t)) ELSE dc

initCounters(dc, force, t) ==
    IF force \/ dc.date # Today(t) THEN ZeroCounters(Today(t)) ELSE dc

\* process.env.SALE_MODE?.toLowerCase() === 'true'
isSaleMode(c) == toLowerCase(c.SALE_MODE) = <<"true">>

\* variant: sale mode is tested before the override
getTotalLimit_SaleFirst(c) ==
    IF isSaleMode(c) THEN c.saleMode
    ELSE IF c.OVERRIDE_TOTAL_LIMIT # Unset THEN parseInt(c.OVERRIDE_TOTAL_LIMIT)
    ELSE c.total

getTotalLimit(c) ==
    IF c.OVERRIDE_TOTAL_LIMIT # Unset THEN parseInt(c.OVERRIDE_TOTAL_LIMIT)
    ELSE IF isSaleMode(c) THEN c.saleMode
    ELSE c.total

\* variant: the source cap is tested before the total cap
canPost_SourceFirst(dc, c, source, categoryKey) ==
    LET totalLimit    == getTotalLimit(c)
        sourceLimit   == OrDefault(c[source], DefaultSourceLimit)
        categoryLimit == OrDefault(c.perCategory, DefaultCategoryLimit)
        categoryCount == dc.byCategory[categoryKey]
    IN  IF dc[source] >= sourceLimit
          THEN [allowed |-> FALSE, reason |-> <<"Daily", source, "limit reached">>]
        ELSE IF dc.total >= totalLimit
          THEN [allowed |-> FALSE, reason |-> <<"Daily total limit reached">>]
        ELSE IF categoryCount >= categoryLimit
          THEN [allowed |-> FALSE, reason |-> <<"Category", categoryKey, "limit reached">>]
        ELSE [allowed |-> TRUE, reason |-> <<"OK">>]

\* variant: no cap is tested
canPost_NoCaps(dc, c, source, categoryKey) ==
    [allowed |-> TRUE, reason |-> <<"OK">>]

\* variant: the category cap is not tested
canPost_NoCategory(dc, c, source, categoryKey) ==
    LET totalLimit    == getTotalLimit(c)
        sourceLimit   == OrDefault(c[source], DefaultSourceLimit)
    IN  IF dc.total >= totalLimit
          THEN [allowed |-> FALSE, reason |-> <<"Daily total limit reached">>]
        ELSE IF dc[source] >= sourceLimit
          THEN [allowed |-> FALSE, reason |-> <<"Daily", source, "limit reached">>]
        ELSE [allowed |-> TRUE, reason |-> <<"OK">>]

\* canPost after its initCounters() call; dc is the counters it reads
canPost(dc, c, source, categoryKey) ==
    LET totalLimit    == getTotalLimit(c)
        sourceLimit   == OrDefault(c[source], DefaultSourceLimit)
        categoryLimit == OrDefault(c.perCategory, DefaultCategoryLimit)
        categoryCount == dc.byCategory[categoryKey]
    IN  IF dc.total >= totalLimit
          THEN [allowed |-> FALSE, reason |-> <<"Daily total limit reached">>]
        ELSE IF dc[source] >= sourceLimit
          THEN [allowed |-> FALSE, reason |-> <<"Daily", source, "limit reached">>]
        ELSE IF categoryCount >= categoryLimit
          THEN [allowed |-> FALSE, reason |-> <<"Category", categoryKey, "limit reached">>]
        ELSE [allowed |-> TRUE, reason |-> <<"OK">>]

\* variant: the per-source counter is not incremented
incrementCounters_NoSource(dc, source, categoryKey) ==
    [dc EXCEPT !.total = @ + 1,
               !.byCategory[categoryKey] = @ + 1]

\* incrementCounters after its initCounters() call
incrementCounters(dc, source, categoryKey) ==
    [dc EXCEPT !.total = @ + 1,
               ![source] = @ + 1,
               !.byCategory[categoryKey] = @ + 1]

\* getStats: { ...dailyCounters }, a new object with the fields of
\* dailyCounters; its byCategory is the object dailyCounters.byCategory
getStats(dc) == dc

\* initCounters assigns a new object to dailyCounters
replaces(dc, force, t) == force \/ dc.date # Today(t)

\* an object returned by getStats that its caller holds. value: the fields as
\* returned, with the changes the caller made to them; view: the fields as
\* the caller reads them now; shared: dailyCounters.byCategory is still the
\* object that the returned byCategory is
NoSnapshot ==
    [held |-> FALSE, value |-> FreshCounters, view |-> FreshCounters, shared |-> FALSE]

\* the held object after the scheduler has assigned a new object to
\* dailyCounters (replaced) or has written into the counters, which are dc then
AfterScheduler(snap, replaced, dc) ==
    IF ~snap.held THEN snap
    ELSE IF replaced THEN [snap EXCEPT !.shared = FALSE]
    ELSE IF snap.shared THEN [snap EXCEPT !.view.byCategory = dc.byCategory]
    ELSE snap

getSourcePriority(dc, c) ==
    (IF dc.flipkart < c.flipkart THEN <<"flipkart">> ELSE <<>>)
    \o (IF dc.amazon < c.amazon THEN <<"amazon">> ELSE <<>>)

getPostsForSession(dc, c) ==
    LET postsPerSlot == OrDefault(c.postsPerSlot, DefaultPostsPerSlot)
        remaining    == getTotalLimit(c) - dc.total
    IN  Min(postsPerSlot, remaining)

Includes(seq, x) == \E i \in 1..Len(seq) : seq[i] = x

RECURSIVE BuildWeighted(_)
\* the weighted array: every key pushed weight times, in key order
BuildWeighted(i) ==
    IF i > Len(CategoryKeys) THEN <<>>
    ELSE LET key    == CategoryKeys[i]
             weight == OrDefault(categories[key].weight, 1)
         IN  [j \in 1..weight |-> key] \o BuildWeighted(i + 1)

\* variant: the drawn category is not spliced out
RemoveAll_None(weighted, category) == weighted

\* weighted.splice of every instance of category
RemoveAll(weighted, category) == SelectSeq(weighted, LAMBDA x : x # category)

\* while (selected.length < count && weighted.length > 0)
selectMore(selected, weighted, count) == Len(selected) < count /\ Len(weighted) > 0

\* one iteration of the while loop, for the index that Math.random() gives
Draw(selected, weighted, index) ==
    LET category == weighted[index]
    IN  [category |-> category,
         selected |-> IF ~Includes(selected, category)
                      THEN Append(selected, category) ELSE selected,
         weighted |-> RemoveAll(weighted, category)]

RECURSIVE SelectLoop_OneMore(_, _, _)
\* variant: the loop runs while selected.length <= count
SelectLoop_OneMore(selected, weighted, count) ==
    IF Len(selected) <= count /\ Len(weighted) > 0
    THEN UNION { LET category == weighted[index]
                 IN  SelectLoop_OneMore(IF ~Includes(selected, category)
                                          THEN Append(selected, category) ELSE selected,
                                        RemoveAll(weighted, category), count)
                 : index \in 1..Len(weighted) }
    ELSE {selected}

RECURSIVE SelectLoop(_, _, _)
\* the while loop of selectCategories: every value of Math.random() is an index
SelectLoop(selected, weighted, count) ==
    IF selectMore(selected, weighted, count)
    THEN UNION { LET d == Draw(selected, weighted, index)
                 IN  SelectLoop(d.selected, d.weighted, count)
                 : index \in 1..Len(weighted) }
    ELSE {selected}

\* the set of arrays selectCategories(count) can return
selectCategories(count) == SelectLoop(<<>>, BuildWeighted(1), count)

----------------------------------------------------------------------------
(* lib/dedupe.js *)

\* a product without an identifier (id is '' or undefined)
NoId == <<>>

\* variant: the key is the identifier alone
uniqueKey_NoSource(productId, source) == toLowerCase(productId)

\* source ? `${source.toLowerCase()}_${productId}`.toLowerCase()
\*        : String(productId).toLowerCase()
uniqueKey(productId, source) ==
    IF source # "" THEN toLowerCase(<<LowerTok(source), "_">> \o productId)
    ELSE toLowerCase(productId)

\* the Map postedProducts is a sequence of entries in insertion order
MapHas(m, k) == \E i \in 1..Len(m) : m[i].key = k

MapGet(m, k) == m[CHOOSE i \in 1..Len(m) : m[i].key = k].ts

MapSet(m, k, v) ==
    IF MapHas(m, k) THEN [i \in 1..Len(m) |-> IF m[i].key = k THEN [key |-> k, ts |-> v] ELSE m[i]]
    ELSE Append(m, [key |-> k, ts |-> v])

MapDelete(m, k) == SelectSeq(m, LAMBDA e : e.key # k)

\* variant: an entry of age exactly TTL_MS still counts
isPosted_Inclusive(m, productId, t) ==
    IF productId = <<>> THEN [ret |-> FALSE, map |-> m]
    ELSE LET normalizedId == toLowerCase(productId)
         IN  IF MapHas(m, normalizedId)
             THEN IF t - MapGet(m, normalizedId) <= TTL_MS
                  THEN [ret |-> TRUE, map |-> m]
                  ELSE [ret |-> FALSE, map |-> MapDelete(m, normalizedId)]
             ELSE [ret |-> FALSE, map |-> m]

\* variant: a hit renews the timestamp of the entry
isPosted_Touch(m, productId, t) ==
    IF productId = <<>> THEN [ret |-> FALSE, map |-> m]
    ELSE LET normalizedId == toLowerCase(productId)
         IN  IF MapHas(m, normalizedId)
             THEN IF t - MapGet(m, normalizedId) < TTL_MS
                  THEN [ret |-> TRUE, map |-> MapSet(m, normalizedId, t)]
                  ELSE [ret |-> FALSE, map |-> MapDelete(m, normalizedId)]
             ELSE [ret |-> FALSE, map |-> m]

\* isPosted: the result and the map it leaves (an expired entry is deleted)
isPosted(m, productId, t) ==
    IF productId = <<>> THEN [ret |-> FALSE, map |-> m]
    ELSE LET normalizedId == toLowerCase(productId)
         IN  IF MapHas(m, normalizedId)
             THEN IF t - MapGet(m, normalizedId) < TTL_MS
                  THEN [ret |-> TRUE, map |-> m]
                  ELSE [ret |-> FALSE, map |-> MapDelete(m, normalizedId)]
             ELSE [ret |-> FALSE, map |-> m]

\* variant: the product is not recorded
markPosted_Never(m, productId, source, t) == m

markPosted(m, productId, source, t) ==
    IF productId = NoId THEN m
    ELSE MapSet(m, uniqueKey(productId, source), t)

isDuplicate(m, productId, source, t) == isPosted(m, uniqueKey(productId, source), t)

RECURSIVE FilterLoop_KeepNoId(_, _, _, _, _)
\* variant: a product without id is not rejected before the duplicate check
FilterLoop_KeepNoId(m, products, i, kept, t) ==
    IF i > Len(products) THEN [ret |-> kept, map |-> m]
    ELSE LET product == products[i]
             d == isDuplicate(m, product.id, product.source, t)
         IN  FilterLoop_KeepNoId(d.map, products, i + 1,
                                 IF d.ret THEN kept ELSE Append(kept, product), t)

RECURSIVE FilterLoop(_, _, _, _, _)
\* products.filter(...): the callback runs on each product in order
FilterLoop(m, products, i, kept, t) ==
    IF i > Len(products) THEN [ret |-> kept, map |-> m]
    ELSE LET product == products[i]
         IN  IF product.id = NoId THEN FilterLoop(m, products, i + 1, kept, t)
             ELSE LET d == isDuplicate(m, product.id, product.source, t)
                  IN  FilterLoop(d.map, products, i + 1,
                                 IF d.ret THEN kept ELSE Append(kept, product), t)

filterDuplicates(m, products, t) == FilterLoop(m, products, 1, <<>>, t)

\* the entries of the map m, as a set
Entries(m) == {m[i] : i \in 1..Len(m)}

\* the entries of m that are not expired at time t
Live(m, t) == {e \in Entries(m) : t - e.ts < TTL_MS}

\* variant: an entry of age exactly TTL_MS is kept
cleanupExpired_Exclusive(m, t) == SelectSeq(m, LAMBDA e : ~(t - e.ts > TTL_MS))

\* cleanupExpired: delete every entry with now - timestamp >= TTL_MS
cleanupExpired(m, t) == SelectSeq(m, LAMBDA e : ~(t - e.ts >= TTL_MS))

RECURSIVE InsertByTs(_, _)
\* insert e after every entry whose timestamp is <= e's (Array.prototype.sort is stable)
InsertByTs(sorted, e) ==
    IF sorted = <<>> THEN <<e>>
    ELSE IF sorted[Len(sorted)].ts <= e.ts THEN Append(sorted, e)
    ELSE Append(InsertByTs(SubSeq(sorted, 1, Len(sorted) - 1), e), sorted[Len(sorted)])

RECURSIVE SortByTs(_, _)
\* entries.sort((a, b) => a[1] - b[1])
SortByTs(entries, n) ==
    IF n = 0 THEN <<>> ELSE InsertByTs(SortByTs(entries, n - 1), entries[n])

\* variant: entries.slice(0, MAX_TRACKED)
SliceTail_Head(entries, n) ==
    IF Len(entries) <= n THEN entries ELSE SubSeq(entries, 1, n)

\* entries.slice(-MAX_TRACKED)
SliceTail(entries, n) ==
    IF Len(entries) <= n THEN entries ELSE SubSeq(entries, Len(entries) - n + 1, Len(entries))

\* the map saveToFile holds when it reaches writeFileSync
pruneForSave(m, t) ==
    LET cleaned == cleanupExpired(m, t)
    IN  IF Len(cleaned) > MAX_TRACKED
        THEN SliceTail(SortByTs(cleaned, Len(cleaned)), MAX_TRACKED)
        ELSE cleaned

\* data/posted.json: absent, or the JSON object written last
\* complete: the content is a whole JSON document (JSON.parse accepts it)
NoFile == [exists |-> FALSE, data |-> <<>>, complete |-> TRUE]

\* the file after writeFileSync has written the map kept
WrittenFile(kept) == [exists |-> TRUE, data |-> kept, complete |-> TRUE]

\* the file after writeFileSync has opened it (flag 'w' truncates it) and
\* before it has written the whole document
TornFile == [exists |-> TRUE, data |-> <<>>, complete |-> FALSE]

\* results of the file system calls
\* writeFails: writeFileSync throws before it opens the file;
\* writeTorn: it throws after it has opened the file
SaveOutcomes == {"ok", "mkdirFails", "writeFails"}
StoreOutcomes == SaveOutcomes \cup {"writeTorn"}
LoadOutcomes == {"ok", "readFails"}

\* variant: the error of a failed mkdirSync or writeFileSync is not caught
saveToFile_Throws(m, f, t, outcome) ==
    IF outcome = "mkdirFails" THEN [map |-> m, file |-> f, threw |-> TRUE]
    ELSE LET kept == pruneForSave(m, t)
         IN  IF outcome = "writeFails" THEN [map |-> kept, file |-> f, threw |-> TRUE]
             ELSE IF outcome = "writeTorn"
             THEN [map |-> kept, file |-> TornFile, threw |-> TRUE]
             ELSE [map |-> kept, file |-> WrittenFile(kept), threw |-> FALSE]

\* saveToFile: the map and the file it leaves; threw: an error left the
\* function (its try block catches every error)
saveToFile(m, f, t, outcome) ==
    IF outcome = "mkdirFails" THEN [map |-> m, file |-> f, threw |-> FALSE]
    ELSE LET kept == pruneForSave(m, t)
         IN  IF outcome = "writeFails" THEN [map |-> kept, file |-> f, threw |-> FALSE]
             ELSE IF outcome = "writeTorn"
             THEN [map |-> kept, file |-> TornFile, threw |-> FALSE]
             ELSE [map |-> kept, file |-> WrittenFile(kept), threw |-> FALSE]

\* variant: the file is not read
loadFromFile_NoRead(m, f, t, outcome) ==
    IF outcome = "readFails" THEN [map |-> <<>>, threw |-> FALSE]
    ELSE [map |-> m, threw |-> FALSE]

\* variant: the error of a failed read or parse is not caught
loadFromFile_Throws(m, f, t, outcome) ==
    IF outcome = "readFails" THEN [map |-> m, threw |-> TRUE]
    ELSE IF f.exists
    THEN IF f.complete
         THEN [map |-> SelectSeq(f.data, LAMBDA e : t - e.ts < TTL_MS), threw |-> FALSE]
         ELSE [map |-> m, threw |-> TRUE]
    ELSE [map |-> m, threw |-> FALSE]

\* loadFromFile: the map it leaves; threw: an error left the function (its
\* catch block handles every error). readFileSync throws for the outcome
\* readFails, and JSON.parse throws on a file that is not a whole document
loadFromFile(m, f, t, outcome) ==
    IF outcome = "readFails" THEN [map |-> <<>>, threw |-> FALSE]
    ELSE IF f.exists
    THEN IF f.complete
         THEN [map |-> SelectSeq(f.data, LAMBDA e : t - e.ts < TTL_MS), threw |-> FALSE]
         ELSE [map |-> <<>>, threw |-> FALSE]
    ELSE [map |-> m, threw |-> FALSE]

----------------------------------------------------------------------------
(* lib/telegram.js: the Bot API answers each request with ok, with the
   rate-limit error, or with another error (the network errors among them) *)

Replies == {"ok", "error", "rateLimit"}

\* the message of the Error that sendMessage throws for a reply
ErrorMessage(reply) ==
    IF reply = "rateLimit" THEN <<"Too Many Requests">> ELSE <<"Telegram API error">>

\* sendMessage: returns data for an ok reply and throws for any other
sendMessage(reply) ==
    IF reply = "ok" THEN [threw |-> FALSE, message |-> <<>>]
    ELSE [threw |-> TRUE, message |-> ErrorMessage(reply)]

\* limits.posting.retryOnFailure ? limits.posting.maxRetries : 0
maxRetriesOf(c) == IF c.retryOnFailure THEN c.maxRetries ELSE 0

RECURSIVE RetryLoop(_, _, _)
\* the loop of sendMessageWithRetry from the given attempt on; replies[n] is
\* the answer to the n-th request. data: a response was returned (else null);
\* rateLimited: the loop was left at a rate-limit error; it never throws
RetryLoop(replies, attempt, maxRetries) ==
    IF attempt > maxRetries
    THEN [data |-> FALSE, requests |-> attempt, rateLimited |-> FALSE,
          threw |-> FALSE, message |-> <<>>]
    ELSE LET sent == sendMessage(replies[attempt + 1])
         IN  IF ~sent.threw
             THEN [data |-> TRUE, requests |-> attempt + 1, rateLimited |-> FALSE,
                   threw |-> FALSE, message |-> <<>>]
             ELSE IF Includes(sent.message, "Too Many Requests")
             THEN [data |-> FALSE, requests |-> attempt + 1, rateLimited |-> TRUE,
                   threw |-> FALSE, message |-> <<>>]
             ELSE RetryLoop(replies, attempt + 1, maxRetries)

sendMessageWithRetry(replies, maxRetries) == RetryLoop(replies, 0, maxRetries)

\* sendPhoto: a response for an ok reply, null for any other
sendPhoto(reply) == reply = "ok"

\* getCredentials: throws unless both environment variables are set
getCredentials(c) ==
    IF c.credentials THEN [threw |-> FALSE, message |-> <<>>]
    ELSE [threw |-> TRUE, message |-> <<"Telegram credentials not configured">>]

\* an imageUrl: null or '', or a string by its leading token
NoImage == <<>>

\* imageUrl && imageUrl.startsWith('http')
hasHttpImage(imageUrl) == imageUrl # NoImage /\ imageUrl[1] = "http"

\* what sendMessage gets for its requests: without credentials it throws an
\* ordinary error before any request is made
textReplies(c, replies) ==
    IF getCredentials(c).threw THEN [n \in DOMAIN replies |-> "error"] ELSE replies

\* the result of postDeal. ret: the boolean returned; threw: an error left
\* postDeal; confirmed: the Bot API accepted the post; rateLimited: the text
\* message was given up at a rate-limit error; photoTried, textTried: sendPhoto
\* and sendMessageWithRetry were called; delivered: the number of requests the
\* Bot API accepted
Settled(ret, confirmed, rateLimited, photoTried, textTried, delivered) ==
    [ret |-> ret, threw |-> FALSE, message |-> <<>>, confirmed |-> confirmed,
     rateLimited |-> rateLimited, photoTried |-> photoTried, textTried |-> textTried,
     delivered |-> delivered]

\* variant: a message that was given up is reported as sent
postDeal_AlwaysTrue(c, t) ==
    IF t.image /\ getCredentials(c).threw
    THEN Settled(TRUE, FALSE, FALSE, TRUE, FALSE, 0)
    ELSE IF t.image /\ sendPhoto(t.photo)
    THEN Settled(TRUE, TRUE, FALSE, TRUE, FALSE, 1)
    ELSE LET result == sendMessageWithRetry(textReplies(c, t.text), maxRetriesOf(c))
         IN  Settled(TRUE, result.data, result.rateLimited, t.image, TRUE,
                     IF result.data THEN 1 ELSE 0)

\* variant: the text message is sent after the photo as well
postDeal_TextAfterPhoto(c, t) ==
    IF t.image /\ getCredentials(c).threw
    THEN Settled(FALSE, FALSE, FALSE, TRUE, FALSE, 0)
    ELSE LET photo  == t.image /\ sendPhoto(t.photo)
             result == sendMessageWithRetry(textReplies(c, t.text), maxRetriesOf(c))
         IN  Settled(photo \/ result.data, photo \/ result.data, result.rateLimited,
                     t.image, TRUE,
                     (IF photo THEN 1 ELSE 0) + (IF result.data THEN 1 ELSE 0))

\* postDeal for the transport behaviour t = [image, photo, text]: image says
\* that the product has an http image url, photo is the answer to sendPhoto
\* and text the answers to the sendMessage requests. The getCredentials() call
\* of sendPhoto is outside its try block: its error is caught by postDeal.
postDeal(c, t) ==
    IF t.image /\ getCredentials(c).threw
    THEN Settled(FALSE, FALSE, FALSE, TRUE, FALSE, 0)
    ELSE IF t.image /\ sendPhoto(t.photo)
    THEN Settled(TRUE, TRUE, FALSE, TRUE, FALSE, 1)
    ELSE LET result == sendMessageWithRetry(textReplies(c, t.text), maxRetriesOf(c))
         IN  Settled(result.data, result.data, result.rateLimited, t.image, TRUE,
                     IF result.data THEN 1 ELSE 0)

----------------------------------------------------------------------------
(* api/run.js: validateAuth *)

\* a request: the x-cron-secret header, the authorization header and the
\* secret query parameter
Request(xCronSecret, authorization, secret) ==
    [xCronSecret |-> xCronSecret, authorization |-> authorization, secret |-> secret]

Requests ==
    { Request(NoSecret, NoSecret, NoSecret),
      Request(<<"s">>, NoSecret, NoSecret),
      Request(<<"x">>, NoSecret, NoSecret),
      Request(NoSecret, <<"Bearer ", "s">>, NoSecret),
      Request(NoSecret, NoSecret, <<"s">>),
      Request(NoSecret, NoSecret, <<"x">>),
      Request(<<"x">>, <<"s">>, NoSecret) }

validateAuth(c, req) ==
    LET cronSecret   == c.CRON_SECRET
        headerSecret == IF req.xCronSecret # NoSecret THEN req.xCronSecret
                        ELSE req.authorization
    IN  IF cronSecret = NoSecret THEN TRUE
        ELSE IF headerSecret = cronSecret \/ headerSecret = <<"Bearer ">> \o cronSecret
        THEN TRUE
        ELSE IF req.secret = cronSecret THEN TRUE
        ELSE FALSE

----------------------------------------------------------------------------
(* Initial state: the modules as loaded by a new process *)

NoCall == [op |-> "none", args |-> <<>>, ret |-> <<>>]

Call(op, args, ret) == [op |-> op, args |-> args, ret |-> ret]

NoResults == [posted |-> 0, skipped |-> 0, failed |-> 0, flipkart |-> 0, amazon |-> 0]

\* the locals of handler, fetchProducts and postProducts; pc is the position:
\* idle (no request), fetch, post (loop head), send (awaiting postDeal),
\* flush (loop left), done (response sent)
\* transport: the postDeal calls of the run, how many of them the Bot API
\* confirmed, and the number of the last that was given up at a rate limit (0: none);
\* fetched: fetchProducts returned a product; flushed: dedupe.flush() was called
\* fetch: the two catalog calls of the last iteration of fetchProducts
NoTransport == [calls |-> 0, confirmed |-> 0, rateLimitedAt |-> 0]

\* a catalog call that was not made
NotCalled == [called |-> FALSE, failed |-> FALSE, products |-> <<>>]

NoFetch == [flipkart |-> NotCalled, amazon |-> NotCalled]

IdleRun ==
    [pc |-> "idle", selected |-> <<>>, sources |-> <<>>, cursor |-> 0, products |-> <<>>,
     idx |-> 0, postsTarget |-> 0, results |-> NoResults, stats |-> FreshCounters,
     transport |-> NoTransport, fetched |-> FALSE, flushed |-> FALSE, fetch |-> NoFetch]

\* the products the model's catalogs hold
CatalogIds == {<<"a">>, <<"b">>, <<"c">>}

Items == Sources \X CatalogIds

NoPost == [at |-> -1, broken |-> FALSE]

NoRepost == [seen |-> FALSE, gap |-> 0, broken |-> FALSE]

\* the current run has not posted an item twice
NoAgain == [seen |-> FALSE, gap |-> 0]

\* no saveToFile call is being followed
NoSave == [seen |-> FALSE, before |-> <<>>, at |-> 0, outcome |-> "none"]

\* markedAt: the time of the markPosted call when that is the last call
\* since: for an isDuplicate call that directly follows a markPosted call with
\*        the same arguments, the time elapsed between the two; else -1
\* lastPost: per item, the time of its last successful post, and whether since
\*        then a store read or write failed or its entry was evicted by the cap
\* thisRun: the items posted by the current run
\* repost: the last post of an item that an earlier run had posted
\* again: the last post by the current run of an item it had posted before,
\*        and the time elapsed since its previous post
\* blocked: the current run dropped a candidate that an earlier run had posted
\* coldStart: the process has not posted yet
\* stored: the file as the last saveToFile call that succeeded left it
\* snapshot: the object returned by getStats that the caller holds
NoHist ==
    [save |-> NoSave, markedAt |-> 0, since |-> -1, stored |-> NoFile,
     snapshot |-> NoSnapshot,
     lastPost |-> [it \in Items |-> NoPost], thisRun |-> {}, repost |-> NoRepost,
     again |-> NoAgain, blocked |-> FALSE, coldStart |-> TRUE]

Init ==
    /\ cfg \in Configs
    /\ now = 0
    /\ dailyCounters = FreshCounters
    /\ postedProducts = <<>>
    /\ file = NoFile
    /\ call = NoCall
    /\ run = IdleRun
    /\ hist = NoHist

\* the clock advances between any two steps
Tick ==
    /\ now < MaxTime
    /\ now' = now + 1
    /\ UNCHANGED <<cfg, dailyCounters, postedProducts, file, call, run, hist>>

----------------------------------------------------------------------------
(* The exported operations of lib/scheduler.js, called one at a time *)

\* most recordPost calls made in one day by the callers of this model
MaxPosts == 3

InitCounters(force) ==
    /\ dailyCounters' = initCounters(dailyCounters, force, now)
    /\ call' = Call("initCounters", <<force>>, <<>>)
    /\ UNCHANGED <<cfg, now, postedProducts, file, run, hist>>

ResetCounters ==
    /\ dailyCounters' = FreshCounters
    /\ call' = Call("resetCounters", <<>>, <<>>)
    /\ UNCHANGED <<cfg, now, postedProducts, file, run, hist>>

CanPost(source, categoryKey) ==
    /\ dailyCounters' = initCounters(dailyCounters, FALSE, now)
    /\ call' = Call("canPost", <<source, categoryKey>>,
                    canPost(dailyCounters', cfg, source, categoryKey))
    /\ UNCHANGED <<cfg, now, postedProducts, file, run, hist>>

IncrementCounters(source, categoryKey) ==
    /\ initCounters(dailyCounters, FALSE, now).total < MaxPosts
    /\ dailyCounters' =
          incrementCounters(initCounters(dailyCounters, FALSE, now), source, categoryKey)
    /\ call' = Call("incrementCounters", <<source, categoryKey>>, <<>>)
    /\ UNCHANGED <<cfg, now, postedProducts, file, run, hist>>

GetStats ==
    /\ dailyCounters' = initCounters(dailyCounters, FALSE, now)
    /\ call' = Call("getStats", <<>>, getStats(dailyCounters'))
    /\ UNCHANGED <<cfg, now, postedProducts, file, run, hist>>

\* the call keeps the returned number as a one-element sequence
GetTotalLimit ==
    /\ call' = Call("getTotalLimit", <<>>, <<getTotalLimit(cfg)>>)
    /\ UNCHANGED <<cfg, now, dailyCounters, postedProducts, file, run, hist>>

SelectCategories(count) ==
    /\ \E selected \in selectCategories(count) :
          call' = Call("selectCategories", <<count>>, selected)
    /\ UNCHANGED <<cfg, now, dailyCounters, postedProducts, file, run, hist>>

GetSourcePriority ==
    /\ dailyCounters' = initCounters(dailyCounters, FALSE, now)
    /\ call' = Call("getSourcePriority", <<>>, getSourcePriority(dailyCounters', cfg))
    /\ UNCHANGED <<cfg, now, postedProducts, file, run, hist>>

GetPostsForSession ==
    /\ dailyCounters' = initCounters(dailyCounters, FALSE, now)
    /\ call' = Call("getPostsForSession", <<>>, getPostsForSession(dailyCounters', cfg))
    /\ UNCHANGED <<cfg, now, postedProducts, file, run, hist>>

\* selectCategories step by step. While the loop runs, the call holds count,
\* the weighted array and the categories drawn so far as its arguments and
\* the array selected as its result
SelectEnter(count) ==
    /\ call.op # "selectCategories.loop"
    /\ call' = Call("selectCategories.loop", <<count, BuildWeighted(1), <<>>>>, <<>>)
    /\ UNCHANGED <<cfg, now, dailyCounters, postedProducts, file, run, hist>>

SelectDraw(index) ==
    /\ call.op = "selectCategories.loop"
    /\ selectMore(call.ret, call.args[2], call.args[1])
    /\ index \in 1..Len(call.args[2])
    /\ LET d == Draw(call.ret, call.args[2], index)
       IN  call' = Call("selectCategories.loop",
                        <<call.args[1], d.weighted, Append(call.args[3], d.category)>>,
                        d.selected)
    /\ UNCHANGED <<cfg, now, dailyCounters, postedProducts, file, run, hist>>

SelectReturn ==
    /\ call.op = "selectCategories.loop"
    /\ ~selectMore(call.ret, call.args[2], call.args[1])
    /\ call' = Call("selectCategories", <<call.args[1], call.args[3]>>, call.ret)
    /\ UNCHANGED <<cfg, now, dailyCounters, postedProducts, file, run, hist>>

\* the steps of a selectCategories call that has been entered
SelectStep ==
    \/ \E index \in 1..Len(BuildWeighted(1)) : SelectDraw(index)
    \/ SelectReturn

NextSelect ==
    \/ Tick
    \/ \E count \in (-1)..MaxCount : SelectEnter(count)
    \/ SelectStep

\* a call that was entered keeps running: the loop has no await
SpecSelect == Init /\ [][NextSelect]_vars /\ WF_vars(SelectStep)

NextQuota ==
    \/ Tick
    \/ \E force \in BOOLEAN : InitCounters(force)
    \/ ResetCounters
    \/ \E source \in Sources, categoryKey \in Categories : CanPost(source, categoryKey)
    \/ \E source \in Sources, categoryKey \in Categories : IncrementCounters(source, categoryKey)
    \/ GetStats
    \/ GetTotalLimit
    \/ \E count \in 0..MaxCount : SelectCategories(count)
    \/ GetSourcePriority
    \/ GetPostsForSession

SpecQuota == Init /\ [][NextQuota]_vars

\* the scheduler called by a caller that holds the object of a getStats call
HeldGetStats ==
    /\ dailyCounters' = initCounters(dailyCounters, FALSE, now)
    /\ call' = Call("getStats", <<>>, getStats(dailyCounters'))
    /\ hist' = [hist EXCEPT !.snapshot = [held |-> TRUE, value |-> getStats(dailyCounters'),
                                          view |-> getStats(dailyCounters'), shared |-> TRUE]]
    /\ UNCHANGED <<cfg, now, postedProducts, file, run>>

HeldInitCounters(force) ==
    /\ dailyCounters' = initCounters(dailyCounters, force, now)
    /\ call' = Call("initCounters", <<force>>, <<>>)
    /\ hist' = [hist EXCEPT !.snapshot =
                  AfterScheduler(@, replaces(dailyCounters, force, now), dailyCounters')]
    /\ UNCHANGED <<cfg, now, postedProducts, file, run>>

HeldResetCounters ==
    /\ dailyCounters' = FreshCounters
    /\ call' = Call("resetCounters", <<>>, <<>>)
    /\ hist' = [hist EXCEPT !.snapshot = AfterScheduler(@, TRUE, dailyCounters')]
    /\ UNCHANGED <<cfg, now, postedProducts, file, run>>

HeldIncrementCounters(source, categoryKey) ==
    /\ initCounters(dailyCounters, FALSE, now).total < MaxPosts
    /\ dailyCounters' =
          incrementCounters(initCounters(dailyCounters, FALSE, now), source, categoryKey)
    /\ call' = Call("incrementCounters", <<source, categoryKey>>, <<>>)
    /\ hist' = [hist EXCEPT !.snapshot =
                  AfterScheduler(AfterScheduler(@, replaces(dailyCounters, FALSE, now),
                                                initCounters(dailyCounters, FALSE, now)),
                                 FALSE, dailyCounters')]
    /\ UNCHANGED <<cfg, now, postedProducts, file, run>>

\* the caller writes into the object it holds: stats.total = 0
HeldSetTotal ==
    /\ hist.snapshot.held
    /\ call' = Call("stats.total", <<>>, <<>>)
    /\ hist' = [hist EXCEPT !.snapshot.value.total = 0, !.snapshot.view.total = 0]
    /\ UNCHANGED <<cfg, now, dailyCounters, postedProducts, file, run>>

\* the caller writes into the object it holds: stats.byCategory[categoryKey] = 0
HeldSetCategory(categoryKey) ==
    /\ hist.snapshot.held
    /\ call' = Call("stats.byCategory", <<categoryKey>>, <<>>)
    /\ hist' = [hist EXCEPT !.snapshot.value.byCategory[categoryKey] = 0,
                             !.snapshot.view.byCategory[categoryKey] = 0]
    /\ dailyCounters' = IF hist.snapshot.shared
                        THEN [dailyCounters EXCEPT !.byCategory[categoryKey] = 0]
                        ELSE dailyCounters
    /\ UNCHANGED <<cfg, now, postedProducts, file, run>>

NextHeld ==
    \/ Tick
    \/ HeldGetStats
    \/ \E force \in BOOLEAN : HeldInitCounters(force)
    \/ HeldResetCounters
    \/ \E source \in Sources, categoryKey \in Categories :
          HeldIncrementCounters(source, categoryKey)
    \/ HeldSetTotal
    \/ \E categoryKey \in Categories : HeldSetCategory(categoryKey)

\* the limits are not read
InitHeld == Init /\ cfg = ConfigNormal

SpecHeld == InitHeld /\ [][NextHeld]_vars

\* limits.json without a flipkart cap and without a category cap
ConfigUnset ==
    [ConfigNormal EXCEPT !.total = 3, !.flipkart = Undefined, !.perCategory = Undefined]

\* limits.json with an amazon cap of 0 and a category cap of 0
ConfigZero ==
    [ConfigNormal EXCEPT !.total = 3, !.amazon = 0, !.perCategory = 0]

InitLimits ==
    /\ cfg \in {ConfigNormal, ConfigUnset, ConfigZero}
    /\ now = 0
    /\ dailyCounters = FreshCounters
    /\ postedProducts = <<>>
    /\ file = NoFile
    /\ call = NoCall
    /\ run = IdleRun
    /\ hist = NoHist

\* the scheduler called under limits with missing and zero caps
SpecLimits == InitLimits /\ [][NextQuota]_vars

\* the values of SALE_MODE: unset, true in two spellings, false
SaleModes == {Unset, <<"true">>, <<"TRUE">>, <<"false">>}

\* the values of OVERRIDE_TOTAL_LIMIT (unset, or a decimal numeral) with the
\* numbers they denote
Overrides ==
    { [text |-> Unset, value |-> 0],
      [text |-> <<"0">>, value |-> 0],
      [text |-> <<"2">>, value |-> 2],
      [text |-> <<"1", "0">>, value |-> 10] }

InitEnv ==
    /\ cfg \in { [ConfigNormal EXCEPT !.SALE_MODE = s, !.OVERRIDE_TOTAL_LIMIT = o.text]
                  : s \in SaleModes, o \in Overrides }
    /\ now = 0
    /\ dailyCounters = FreshCounters
    /\ postedProducts = <<>>
    /\ file = NoFile
    /\ call = NoCall
    /\ run = IdleRun
    /\ hist = NoHist

\* the scheduler called under every setting of the two environment variables
SpecEnv == InitEnv /\ [][NextQuota]_vars

----------------------------------------------------------------------------
(* The exported operations of lib/dedupe.js, called one at a time *)

\* the (productId, source) arguments the callers of this model pass
MarkPool ==
    { <<<<"a">>, "flipkart">>, <<<<"A">>, "flipkart">>, <<<<"b">>, "flipkart">>,
      <<<<"a">>, "amazon">>, <<<<"a">>, "">>, <<NoId, "flipkart">> }

\* one id in two spellings, under sources in two spellings and without source
KeyPool ==
    { <<<<"a">>, "flipkart">>, <<<<"A">>, "flipkart">>, <<<<"a">>, "Flipkart">>,
      <<<<"a">>, "amazon">>, <<<<"a">>, "">>, <<NoId, "flipkart">> }

\* the arguments with a source, as the fetched products have
SourcedPool == { a \in MarkPool : a[2] \in Sources }

\* the products passed to filterDuplicates: only id and source are read
FilterPool ==
    { [id |-> id, source |-> "flipkart", categoryKey |-> "mobiles", discount |-> 0]
        : id \in {<<"a">>, <<"b">>, NoId} }

\* the product lists of length 1..n over FilterPool
ProductLists(n) == UNION { [1..k -> FilterPool] : k \in 1..n }

MarkPosted(productId, source) ==
    /\ postedProducts' = markPosted(postedProducts, productId, source, now)
    /\ call' = Call("markPosted", <<productId, source>>, <<>>)
    /\ hist' = [hist EXCEPT !.save = NoSave, !.markedAt = now, !.since = -1]
    /\ UNCHANGED <<cfg, now, dailyCounters, file, run>>

IsDuplicate(productId, source) ==
    /\ LET d == isDuplicate(postedProducts, productId, source, now)
       IN  /\ postedProducts' = d.map
           /\ call' = Call("isDuplicate", <<productId, source>>, d.ret)
    /\ hist' = [hist EXCEPT !.markedAt = 0,
                             !.since = IF call.op = "markPosted" /\ call.args = <<productId, source>>
                                       THEN now - hist.markedAt ELSE -1]
    /\ UNCHANGED <<cfg, now, dailyCounters, file, run>>

FilterDuplicates(products) ==
    /\ LET d == filterDuplicates(postedProducts, products, now)
       IN  /\ postedProducts' = d.map
           /\ call' = Call("filterDuplicates", products, d.ret)
    /\ hist' = [hist EXCEPT !.markedAt = 0, !.since = -1]
    /\ UNCHANGED <<cfg, now, dailyCounters, file, run>>

SaveToFile(outcome) ==
    /\ LET d == saveToFile(postedProducts, file, now, outcome)
       IN  /\ postedProducts' = d.map
           /\ file' = d.file
    /\ call' = Call("saveToFile", <<outcome>>,
                    IF saveToFile(postedProducts, file, now, outcome).threw
                    THEN "throws" ELSE "returns")
    /\ hist' = [hist EXCEPT !.save = [seen |-> TRUE, before |-> postedProducts,
                                      at |-> now, outcome |-> outcome],
                             !.stored = IF outcome = "ok"
                                        THEN saveToFile(postedProducts, file, now, outcome).file
                                        ELSE @,
                             !.markedAt = 0, !.since = -1]
    /\ UNCHANGED <<cfg, now, dailyCounters, run>>

LoadFromFile(outcome) ==
    /\ LET l == loadFromFile(postedProducts, file, now, outcome)
       IN  /\ postedProducts' = l.map
           /\ call' = Call("loadFromFile", <<outcome>>,
                           IF l.threw THEN "throws" ELSE "returns")
    /\ hist' = [hist EXCEPT !.markedAt = 0, !.since = -1]
    /\ UNCHANGED <<cfg, now, dailyCounters, file, run>>

\* a new process: the module state is created again, the file stays
NewProcess ==
    /\ run.pc \in {"idle", "done"}
    /\ dailyCounters' = FreshCounters
    /\ postedProducts' = <<>>
    /\ call' = Call("newProcess", <<>>, <<>>)
    /\ run' = IdleRun
    /\ hist' = [hist EXCEPT !.markedAt = 0, !.since = -1, !.coldStart = TRUE]
    /\ UNCHANGED <<cfg, now, file>>

\* the dedupe module used alone: the limits are not read
InitDedupe == Init /\ cfg = ConfigNormal

NextDedupe ==
    \/ Tick
    \/ \E a \in MarkPool : MarkPosted(a[1], a[2])
    \/ \E a \in MarkPool : IsDuplicate(a[1], a[2])

SpecDedupe == InitDedupe /\ [][NextDedupe]_vars

NextFilter ==
    \/ Tick
    \/ \E a \in SourcedPool : MarkPosted(a[1], a[2])
    \/ \E products \in ProductLists(MaxItems) : FilterDuplicates(products)

SpecFilter == InitDedupe /\ [][NextFilter]_vars

\* longest product list passed to filterDuplicates between marks and saves
MaxChecked == 2

NextKeys ==
    \/ Tick
    \/ \E a \in KeyPool : MarkPosted(a[1], a[2])
    \/ \E a \in KeyPool : IsDuplicate(a[1], a[2])

SpecKeys == InitDedupe /\ [][NextKeys]_vars

\* the products of FilterPool that have an id, as (productId, source)
CheckPool == { <<p.id, p.source>> : p \in {q \in FilterPool : q.id # NoId} }

\* the two checks called between marks and saves
NextChecks ==
    \/ Tick
    \/ \E a \in CheckPool : MarkPosted(a[1], a[2])
    \/ \E a \in CheckPool : IsDuplicate(a[1], a[2])
    \/ \E products \in ProductLists(MaxChecked) : FilterDuplicates(products)
    \/ SaveToFile("ok")

SpecChecks == InitDedupe /\ [][NextChecks]_vars

NextStore ==
    \/ Tick
    \/ \E a \in SourcedPool : MarkPosted(a[1], a[2])
    \/ \E outcome \in StoreOutcomes : SaveToFile(outcome)
    \/ \E outcome \in LoadOutcomes : LoadFromFile(outcome)
    \/ NewProcess

SpecStore == InitDedupe /\ [][NextStore]_vars

\* every exported operation of the module that reads or writes the map
\* (filterDuplicates on one product), and the end of the process
NextPersist ==
    \/ Tick
    \/ \E a \in CheckPool : MarkPosted(a[1], a[2])
    \/ \E a \in CheckPool : IsDuplicate(a[1], a[2])
    \/ \E p \in FilterPool : FilterDuplicates(<<p>>)
    \/ \E outcome \in StoreOutcomes : SaveToFile(outcome)
    \/ \E outcome \in LoadOutcomes : LoadFromFile(outcome)
    \/ NewProcess

SpecPersist == InitDedupe /\ [][NextPersist]_vars

\* saveToFile in two steps: up to the point where writeFileSync has opened the
\* file, which truncates it; the call holds the map that is being written
SaveOpen ==
    /\ call.op # "writeFileSync"
    /\ LET kept == pruneForSave(postedProducts, now)
       IN  /\ postedProducts' = kept
           /\ file' = TornFile
           /\ call' = Call("writeFileSync", <<kept>>, "pending")
    /\ hist' = [hist EXCEPT !.save = NoSave, !.markedAt = 0, !.since = -1]
    /\ UNCHANGED <<cfg, now, dailyCounters, run>>

\* writeFileSync has written the document and saveToFile returns
SaveWrite ==
    /\ call.op = "writeFileSync"
    /\ file' = WrittenFile(call.args[1])
    /\ call' = Call("saveToFile", <<"ok">>, "returns")
    /\ hist' = [hist EXCEPT !.stored = WrittenFile(call.args[1])]
    /\ UNCHANGED <<cfg, now, dailyCounters, postedProducts, run>>

\* the store with the write of a save in two steps; the process can stop
\* between them, and it makes no other call between them
NextCrash ==
    \/ Tick
    \/ \E a \in SourcedPool : call.op # "writeFileSync" /\ MarkPosted(a[1], a[2])
    \/ \E outcome \in LoadOutcomes : call.op # "writeFileSync" /\ LoadFromFile(outcome)
    \/ SaveOpen
    \/ SaveWrite
    \/ NewProcess

SpecCrash == InitDedupe /\ [][NextCrash]_vars

----------------------------------------------------------------------------
(* api/run.js: one request is handled in steps, the clock may advance between them *)

\* the discount percentages of the fetched products
Discounts == {10, 20}

RECURSIVE FetchLists(_, _, _)
\* what the catalog holding ids (a sequence of ids) can answer to one
\* request: any of its products, in catalog order, at any discount
FetchLists(source, ids, discounts) ==
    IF ids = <<>> THEN {<<>>}
    ELSE LET rest == FetchLists(source, Tail(ids), discounts)
         IN  rest \cup
             { <<[id |-> Head(ids), source |-> source, categoryKey |-> "", discount |-> d]>> \o r
                 : d \in discounts, r \in rest }

\* a catalog request that fails (network error, refused credentials)
FailedReply == [failed |-> TRUE, products |-> <<>>]

\* the outcomes of one catalog request: it fails, or the catalog answers with
\* one of its lists
FetchReplies(source, ids, discounts) ==
    {FailedReply} \cup
    { [failed |-> FALSE, products |-> l] : l \in FetchLists(source, ids, discounts) }

\* variant: the error of a failed catalog request leaves fetchProducts
fetchPair_Aborts(reply) ==
    [aborted |-> reply.failed,
     products |-> IF reply.failed THEN <<>> ELSE reply.products]

\* one try block of fetchProducts around a getProductsByCategory call: the
\* fetcher answers a failed request with [] (its own catch block), and the
\* catch block of fetchProducts lets no error end the loop
fetchPair(reply) ==
    [aborted |-> FALSE,
     products |-> IF reply.failed THEN <<>> ELSE reply.products]

\* products.forEach(p => { p.categoryKey = categoryKey; allProducts.push(p) })
Tag(products, categoryKey) ==
    [i \in 1..Len(products) |-> [products[i] EXCEPT !.categoryKey = categoryKey]]

RECURSIVE InsertByDiscount_Unstable(_, _)
\* variant: p is inserted before the products of the same discount
InsertByDiscount_Unstable(sorted, p) ==
    IF sorted = <<>> THEN <<p>>
    ELSE IF sorted[Len(sorted)].discount > p.discount THEN Append(sorted, p)
    ELSE Append(InsertByDiscount_Unstable(SubSeq(sorted, 1, Len(sorted) - 1), p),
                sorted[Len(sorted)])

RECURSIVE InsertByDiscount(_, _)
\* insert p after every product whose discount is >= p's
InsertByDiscount(sorted, p) ==
    IF sorted = <<>> THEN <<p>>
    ELSE IF sorted[Len(sorted)].discount >= p.discount THEN Append(sorted, p)
    ELSE Append(InsertByDiscount(SubSeq(sorted, 1, Len(sorted) - 1), p), sorted[Len(sorted)])

RECURSIVE SortByDiscount(_, _)
\* uniqueProducts.sort((a, b) => b.discount - a.discount), a stable sort
SortByDiscount(products, n) ==
    IF n = 0 THEN <<>> ELSE InsertByDiscount(SortByDiscount(products, n - 1), products[n])

Response(status, success, message) ==
    [status |-> status, success |-> success, message |-> message]

ItemOf(product) == <<product.source, product.id>>

\* the request carries the configured secret, in a header or in the query
Presents(c, req) ==
    /\ c.CRON_SECRET # NoSecret
    /\ \E v \in {req.xCronSecret, req.authorization, req.secret} :
          v = c.CRON_SECRET \/ v = <<"Bearer ">> \o c.CRON_SECRET

\* variant: stats.total > totalLimit
limitReached_OffByOne(stats, c) == stats.total > getTotalLimit(c)

\* if (stats.total >= totalLimit) in the handler
limitReached(stats, c) == stats.total >= getTotalLimit(c)

\* variant: the empty result is not tested
noProducts_Never(products) == FALSE

\* if (products.length === 0) in the handler
noProducts(products) == Len(products) = 0

\* variant: results.posted > postsTarget
sessionLimitReached_OffByOne(results, postsTarget) == results.posted > postsTarget

\* if (results.posted >= postsTarget) in postProducts
sessionLimitReached(results, postsTarget) == results.posted >= postsTarget

\* handler up to the first await: auth, initialize, limit check, selectCategories,
\* and the head of fetchProducts. The call records whether validateAuth accepted
\* the request and whether the request carried the secret
RunStart(req, loadOutcome) ==
    /\ run.pc \in {"idle", "done"}
    /\ LET authorized == validateAuth(cfg, req)
           args       == <<authorized, Presents(cfg, req)>>
       IN
       IF ~authorized
       THEN /\ call' = Call("handler", args, Response(401, FALSE, "Unauthorized"))
            /\ run' = [IdleRun EXCEPT !.pc = "done"]
            /\ hist' = [hist EXCEPT !.markedAt = 0, !.since = -1]
            /\ UNCHANGED <<postedProducts, dailyCounters>>
       ELSE IF loadFromFile(postedProducts, file, now, loadOutcome).threw
       THEN /\ call' = Call("handler", args, Response(500, FALSE, "Internal server error"))
            /\ run' = [IdleRun EXCEPT !.pc = "done"]
            /\ postedProducts' = loadFromFile(postedProducts, file, now, loadOutcome).map
            /\ hist' = [hist EXCEPT !.markedAt = 0, !.since = -1]
            /\ UNCHANGED dailyCounters
       ELSE LET m     == loadFromFile(postedProducts, file, now, loadOutcome).map
                dc    == initCounters(dailyCounters, FALSE, now)
                stats == getStats(dc)
            IN  /\ postedProducts' = m
                /\ dailyCounters' = dc
                /\ hist' = [hist EXCEPT
                              !.markedAt = 0, !.since = -1, !.save = NoSave,
                              !.thisRun = {}, !.repost = NoRepost, !.again = NoAgain,
                              !.blocked = FALSE,
                              !.lastPost = [it \in Items |->
                                  IF loadOutcome # "ok" /\ @[it].at >= 0
                                  THEN [@[it] EXCEPT !.broken = TRUE] ELSE @[it]]]
                /\ IF limitReached(stats, cfg)
                   THEN /\ run' = [IdleRun EXCEPT !.pc = "done", !.stats = stats]
                        /\ call' = Call("handler", args,
                                        Response(200, TRUE, "Daily limit reached"))
                   ELSE /\ \E selected \in selectCategories(SessionCategories) :
                             run' = [IdleRun EXCEPT !.pc = "fetch", !.selected = selected,
                                        !.sources = getSourcePriority(dc, cfg),
                                        !.cursor = 1, !.stats = stats]
                        /\ call' = Call("handler", args, Response(0, FALSE, "pending"))
    /\ UNCHANGED <<cfg, now, file>>

\* variant: the amazon request is made whatever canPost answers
amazonAllowed_Always(dc, c, categoryKey) == TRUE

\* const { allowed } = scheduler.canPost('amazon', categoryKey)
amazonAllowed(dc, c, categoryKey) == canPost(dc, c, "amazon", categoryKey).allowed

\* one iteration of the loop of fetchProducts; fk and amz are the outcomes of
\* the two catalog requests when they are made
FetchCategory(fk, amz) ==
    /\ run.pc = "fetch"
    /\ run.cursor <= Len(run.selected)
    /\ LET categoryKey  == run.selected[run.cursor]
           categoryInfo == categories[categoryKey]
           useFlipkart  == Includes(run.sources, "flipkart") /\ categoryInfo.flipkartId
           tryAmazon    == Includes(run.sources, "amazon") /\ categoryInfo.amazonNode
           dc           == IF tryAmazon /\ ~(useFlipkart /\ fetchPair(fk).aborted)
                           THEN initCounters(dailyCounters, FALSE, now)
                           ELSE dailyCounters
           useAmazon    == tryAmazon /\ amazonAllowed(dc, cfg, categoryKey)
           fromFlipkart == IF useFlipkart THEN fetchPair(fk).products ELSE <<>>
           fromAmazon   == IF useAmazon THEN fetchPair(amz).products ELSE <<>>
       IN  /\ ~useFlipkart => fk = FailedReply
           /\ (~useAmazon \/ (useFlipkart /\ fetchPair(fk).aborted)) => amz = FailedReply
           /\ dailyCounters' = dc
           /\ IF useFlipkart /\ fetchPair(fk).aborted
              THEN /\ run' = [IdleRun EXCEPT !.pc = "done", !.stats = run.stats]
                   /\ call' = Call("handler", call.args,
                                   Response(500, FALSE, "Internal server error"))
              ELSE IF useAmazon /\ fetchPair(amz).aborted
              THEN /\ run' = [IdleRun EXCEPT !.pc = "done", !.stats = run.stats]
                   /\ call' = Call("handler", call.args,
                                   Response(500, FALSE, "Internal server error"))
              ELSE /\ run' = [run EXCEPT
                                !.cursor = @ + 1,
                                !.products = @ \o Tag(fromFlipkart, categoryKey)
                                               \o Tag(fromAmazon, categoryKey),
                                !.fetch = [flipkart |-> IF useFlipkart
                                                        THEN [called |-> TRUE, failed |-> fk.failed,
                                                              products |-> fk.products]
                                                        ELSE NotCalled,
                                           amazon |-> IF useAmazon
                                                      THEN [called |-> TRUE, failed |-> amz.failed,
                                                            products |-> amz.products]
                                                      ELSE NotCalled]]
                   /\ UNCHANGED call
    /\ UNCHANGED <<cfg, now, postedProducts, file, hist>>

\* handler after fetchProducts: empty check, filterDuplicates, sort, and the
\* head of postProducts
Prepare ==
    /\ run.pc = "fetch"
    /\ run.cursor > Len(run.selected)
    /\ IF noProducts(run.products)
       THEN /\ run' = [IdleRun EXCEPT !.pc = "done", !.stats = run.stats]
            /\ call' = Call("handler", call.args,
                            Response(200, TRUE, "No products found matching criteria"))
            /\ UNCHANGED <<postedProducts, dailyCounters, hist>>
       ELSE LET f  == filterDuplicates(postedProducts, run.products, now)
                dc == initCounters(dailyCounters, FALSE, now)
            IN  /\ postedProducts' = f.map
                /\ dailyCounters' = dc
                /\ run' = [run EXCEPT !.pc = "post",
                                      !.fetch = NoFetch,
                                      !.products = SortByDiscount(f.ret, Len(f.ret)),
                                      !.idx = 1,
                                      !.fetched = run.products # <<>>,
                                      !.postsTarget = getPostsForSession(dc, cfg)]
                /\ hist' = [hist EXCEPT !.blocked =
                              \E i \in 1..Len(run.products) :
                                 /\ run.products[i].id # NoId
                                 /\ ~Includes(f.ret, run.products[i])
                                 /\ hist.lastPost[ItemOf(run.products[i])].at >= 0
                                 /\ ~hist.lastPost[ItemOf(run.products[i])].broken]
                /\ UNCHANGED call
    /\ UNCHANGED <<cfg, now, file>>

\* variant: a candidate that canPost refuses ends the loop
PostCheck_BreakOnSkip ==
    /\ run.pc = "post"
    /\ IF run.idx > Len(run.products) \/ sessionLimitReached(run.results, run.postsTarget)
       THEN /\ run' = [run EXCEPT !.pc = "flush"]
            /\ UNCHANGED <<dailyCounters, postedProducts>>
       ELSE LET product == run.products[run.idx]
                dc      == initCounters(dailyCounters, FALSE, now)
                cp      == canPost(dc, cfg, product.source, product.categoryKey)
                d       == isDuplicate(postedProducts, product.id, product.source, now)
            IN  /\ dailyCounters' = dc
                /\ IF ~cp.allowed
                   THEN /\ run' = [run EXCEPT !.results.skipped = @ + 1, !.pc = "flush"]
                        /\ UNCHANGED postedProducts
                   ELSE /\ postedProducts' = d.map
                        /\ IF d.ret
                           THEN run' = [run EXCEPT !.results.skipped = @ + 1, !.idx = @ + 1]
                           ELSE run' = [run EXCEPT !.pc = "send"]
    /\ UNCHANGED <<cfg, now, file, call, hist>>

\* postProducts: the head of one loop iteration, up to the await of postDeal
PostCheck ==
    /\ run.pc = "post"
    /\ IF run.idx > Len(run.products) \/ sessionLimitReached(run.results, run.postsTarget)
       THEN /\ run' = [run EXCEPT !.pc = "flush"]
            /\ UNCHANGED <<dailyCounters, postedProducts>>
       ELSE LET product == run.products[run.idx]
                dc      == initCounters(dailyCounters, FALSE, now)
                cp      == canPost(dc, cfg, product.source, product.categoryKey)
                d       == isDuplicate(postedProducts, product.id, product.source, now)
            IN  /\ dailyCounters' = dc
                /\ IF ~cp.allowed
                   THEN /\ run' = [run EXCEPT !.results.skipped = @ + 1, !.idx = @ + 1]
                        /\ UNCHANGED postedProducts
                   ELSE /\ postedProducts' = d.map
                        /\ IF d.ret
                           THEN run' = [run EXCEPT !.results.skipped = @ + 1, !.idx = @ + 1]
                           ELSE run' = [run EXCEPT !.pc = "send"]
    /\ UNCHANGED <<cfg, now, file, call, hist>>

\* postProducts: postDeal has settled for the transport behaviour t; the try
\* block's success and failure branches, and its catch block
PostResult(t) ==
    /\ run.pc = "send"
    /\ LET product == run.products[run.idx]
           item    == ItemOf(product)
           sent    == postDeal(cfg, t)
           tr      == [calls |-> run.transport.calls + 1,
                       confirmed |-> run.transport.confirmed + (IF sent.confirmed THEN 1 ELSE 0),
                       rateLimitedAt |->
                          IF sent.rateLimited
                          THEN run.transport.calls + 1 ELSE run.transport.rateLimitedAt]
       IN  IF sent.threw
           THEN /\ run' = [run EXCEPT !.results.failed = @ + 1, !.transport = tr,
                                      !.idx = IF Includes(sent.message, "Too Many Requests")
                                              THEN @ ELSE @ + 1,
                                      !.pc = IF Includes(sent.message, "Too Many Requests")
                                             THEN "flush" ELSE "post"]
                /\ UNCHANGED <<postedProducts, dailyCounters, hist>>
           ELSE IF sent.ret
           THEN /\ run' = [run EXCEPT !.results.posted = @ + 1,
                                      !.results[product.source] = @ + 1,
                                      !.transport = tr,
                                      !.idx = @ + 1, !.pc = "post"]
                /\ postedProducts' = markPosted(postedProducts, product.id, product.source, now)
                /\ dailyCounters' = incrementCounters(initCounters(dailyCounters, FALSE, now),
                                                      product.source, product.categoryKey)
                /\ hist' = [hist EXCEPT
                              !.lastPost[item] = [at |-> now, broken |-> FALSE],
                              !.thisRun = @ \cup {item},
                              !.coldStart = FALSE,
                              !.again = IF item \in hist.thisRun
                                        THEN [seen |-> TRUE, gap |-> now - hist.lastPost[item].at]
                                        ELSE @,
                              !.repost = IF item \notin hist.thisRun /\ hist.lastPost[item].at >= 0
                                         THEN [seen |-> TRUE, gap |-> now - hist.lastPost[item].at,
                                               broken |-> hist.lastPost[item].broken]
                                         ELSE @]
           ELSE /\ run' = [run EXCEPT !.results.failed = @ + 1, !.transport = tr,
                                      !.idx = @ + 1, !.pc = "post"]
                /\ UNCHANGED <<postedProducts, dailyCounters, hist>>
    /\ UNCHANGED <<cfg, now, file, call>>

\* handler after postProducts: dedupe.flush(), getStats(), the response; an
\* error that leaves flush() reaches the handler's catch block
Flush(outcome) ==
    /\ run.pc = "flush"
    /\ LET d     == saveToFile(postedProducts, file, now, outcome)
           dc    == IF d.threw THEN dailyCounters ELSE initCounters(dailyCounters, FALSE, now)
           lost  == {e \in Live(postedProducts, now) : e \notin Entries(d.map)}
       IN  /\ postedProducts' = d.map
           /\ file' = d.file
           /\ dailyCounters' = dc
           /\ run' = [IdleRun EXCEPT !.pc = "done", !.results = run.results,
                                     !.stats = getStats(dc), !.fetched = run.fetched,
                                     !.flushed = TRUE]
           /\ hist' = [hist EXCEPT !.stored = IF outcome = "ok" THEN d.file ELSE @,
                                    !.lastPost = [it \in Items |->
                          IF @[it].at >= 0 /\ (outcome # "ok" \/
                                \E e \in lost : e.key = uniqueKey(it[2], it[1]))
                          THEN [@[it] EXCEPT !.broken = TRUE] ELSE @[it]]]
           /\ call' = Call("handler", call.args,
                           IF d.threw THEN Response(500, FALSE, "Internal server error")
                           ELSE Response(200, TRUE, "Posted deals"))
    /\ UNCHANGED <<cfg, now>>

\* the catalogs of the long-running model hold one product each, at one discount
SmallCatalog == << <<"a">> >>

\* the catalogs of the single-request model hold two products each
Catalog == << <<"a">>, <<"b">> >>

\* the transport behaviours of the long-running model: no image, and a text
\* message that is accepted at once, accepted at the second request, or refused
SmallTransports ==
    { [image |-> FALSE, photo |-> "error", text |-> <<"ok", "ok">>],
      [image |-> FALSE, photo |-> "error", text |-> <<"error", "ok">>],
      [image |-> FALSE, photo |-> "error", text |-> <<"error", "error">>] }

\* every transport behaviour: each request gets any of the replies
TextTransports ==
    { [image |-> FALSE, photo |-> "error", text |-> <<r1, r2>>] :
        r1 \in Replies, r2 \in Replies }

Transports ==
    TextTransports \cup
    { [image |-> TRUE, photo |-> p, text |-> <<r1, r2>>] :
        p \in Replies, r1 \in Replies, r2 \in Replies }

\* largest limits.posting.maxRetries of the transport model
MaxRetries == 2

\* the answers of the Bot API to the sendMessage requests of one message, for
\* as many requests as the retry settings allow at most
ReplySeqs == [1..(MaxRetries + 1) -> Replies]

\* limits.json with each retry setting, with and without the credentials
RetryConfigs ==
    { [ConfigNormal EXCEPT !.retryOnFailure = b, !.maxRetries = n, !.credentials = k] :
        b \in BOOLEAN, n \in 0..MaxRetries, k \in BOOLEAN }

\* the imageUrl arguments: none, an http url, a url of another form
ImageUrls == {NoImage, <<"http", "s://img/a.jpg">>, <<"//img/a.jpg">>}

\* the transport behaviour met by a postDeal call with that imageUrl
TransportOf(imageUrl, photo, replies) ==
    [image |-> hasHttpImage(imageUrl), photo |-> photo, text |-> replies]

\* the behaviours postDeal can meet
DealTransports ==
    { TransportOf(imageUrl, p, replies) :
        imageUrl \in ImageUrls, p \in Replies, replies \in ReplySeqs }

SendMessageWithRetry(replies) ==
    /\ call' = Call("sendMessageWithRetry", <<replies>>,
                    sendMessageWithRetry(textReplies(cfg, replies),
                                         maxRetriesOf(cfg)))
    /\ UNCHANGED <<cfg, now, dailyCounters, postedProducts, file, run, hist>>

\* postDeal(formattedMessage, imageUrl) meeting the answers photo and replies
PostDeal(imageUrl, photo, replies) ==
    /\ call' = Call("postDeal", <<imageUrl, TransportOf(imageUrl, photo, replies)>>,
                    postDeal(cfg, TransportOf(imageUrl, photo, replies)))
    /\ UNCHANGED <<cfg, now, dailyCounters, postedProducts, file, run, hist>>

InitTransport ==
    /\ cfg \in RetryConfigs
    /\ now = 0
    /\ dailyCounters = FreshCounters
    /\ postedProducts = <<>>
    /\ file = NoFile
    /\ call = NoCall
    /\ run = IdleRun
    /\ hist = NoHist

NextTransport ==
    \/ \E replies \in ReplySeqs : SendMessageWithRetry(replies)
    \/ \E imageUrl \in ImageUrls, photo \in Replies, replies \in ReplySeqs :
          PostDeal(imageUrl, photo, replies)

\* lib/telegram.js called one message at a time
SpecTransport == InitTransport /\ [][NextTransport]_vars

\* the requests of the long-running model
SmallRequests ==
    { Request(NoSecret, NoSecret, NoSecret),
      Request(<<"s">>, NoSecret, NoSecret),
      Request(NoSecret, NoSecret, <<"x">>),
      Request(<<"x">>, <<"s">>, NoSecret) }

Next ==
    \/ Tick
    \/ NewProcess
    \/ \E req \in SmallRequests, loadOutcome \in LoadOutcomes : RunStart(req, loadOutcome)
    \/ \E fk \in FetchReplies("flipkart", SmallCatalog, {10}),
          amz \in FetchReplies("amazon", SmallCatalog, {10}) :
          FetchCategory(fk, amz)
    \/ Prepare
    \/ PostCheck
    \/ \E t \in SmallTransports : PostResult(t)
    \/ \E outcome \in SaveOutcomes : Flush(outcome)

Spec == Init /\ [][Next]_vars

\* one request to a new process, within one instant
NextSession ==
    \/ \E req \in Requests, loadOutcome \in LoadOutcomes :
          run.pc = "idle" /\ RunStart(req, loadOutcome)
    \/ \E fk \in FetchReplies("flipkart", Catalog, Discounts),
          amz \in FetchReplies("amazon", Catalog, Discounts) :
          FetchCategory(fk, amz)
    \/ Prepare
    \/ PostCheck
    \/ \E t \in Transports : PostResult(t)
    \/ \E outcome \in SaveOutcomes : Flush(outcome)

SpecSession == Init /\ [][NextSession]_vars

\* limits that let one run post five products
ConfigRoomy ==
    [total |-> 5, saleMode |-> 5, flipkart |-> 3, amazon |-> 2, perCategory |-> 5,
     postsPerSlot |-> 5, SALE_MODE |-> Unset, OVERRIDE_TOTAL_LIMIT |-> NoOverride,
     retryOnFailure |-> TRUE, maxRetries |-> 1, CRON_SECRET |-> <<"s">>,
     credentials |-> TRUE]

\* a catalog call that returns every product of the catalog
FullList(source, ids) ==
    [i \in 1..Len(ids) |->
        [id |-> ids[i], source |-> source, categoryKey |-> "", discount |-> 10]]

\* the catalogs of the five-candidate model
FlipkartCatalog == << <<"a">>, <<"b">>, <<"c">> >>
AmazonCatalog == << <<"a">>, <<"b">> >>

InitRoomy ==
    /\ cfg = ConfigRoomy
    /\ now = 0
    /\ dailyCounters = FreshCounters
    /\ postedProducts = <<>>
    /\ file = NoFile
    /\ call = NoCall
    /\ run = IdleRun
    /\ hist = NoHist

\* one authenticated request to a new process with roomy limits; a catalog
\* call returns all its products or none
NextRoomy ==
    \/ \E req \in {Request(<<"s">>, NoSecret, NoSecret)} :
          run.pc = "idle" /\ RunStart(req, "ok")
    \/ \E fk \in {FailedReply, [failed |-> FALSE,
                                   products |-> FullList("flipkart", FlipkartCatalog)]},
          amz \in {FailedReply, [failed |-> FALSE,
                                    products |-> FullList("amazon", AmazonCatalog)]} :
          FetchCategory(fk, amz)
    \/ Prepare
    \/ PostCheck
    \/ \E t \in TextTransports : PostResult(t)
    \/ \E outcome \in {"ok"} : Flush(outcome)

SpecRoomy == InitRoomy /\ [][NextRoomy]_vars

----------------------------------------------------------------------------
(* Properties of lib/scheduler.js, under SpecQuota *)

\* C3: after every recordPost (incrementCounters) call, and in every other
\* state, total equals the sum of the per-source counters.
C3_TotalIsSumOfSources ==
    dailyCounters.total = dailyCounters.flipkart + dailyCounters.amazon

C3_Witness ==
    /\ call.op = "incrementCounters"
    /\ dailyCounters.flipkart >= 1
    /\ dailyCounters.amazon >= 1
    /\ dailyCounters.total = MaxPosts

\* C4: when total >= the total limit, canPost answers allowed = false with the
\* total-limit reason, for every source and category, also when the source
\* cap or the category cap is reached too.
C4_TotalReasonFirst ==
    (call.op = "canPost" /\ dailyCounters.total >= getTotalLimit(cfg))
        => /\ call.ret.allowed = FALSE
           /\ call.ret.reason = <<"Daily total limit reached">>

C4_Witness ==
    /\ call.op = "canPost"
    /\ dailyCounters.total >= getTotalLimit(cfg)
    /\ dailyCounters[call.args[1]] >= cfg[call.args[1]]
    /\ dailyCounters.byCategory[call.args[2]] >= cfg.perCategory
    /\ call.ret.reason = <<"Daily total limit reached">>

AllZero(dc) ==
    /\ dc.total = 0
    /\ dc.flipkart = 0
    /\ dc.amazon = 0
    /\ \A c \in Categories : dc.byCategory[c] = 0

\* C5: initCounters without force on the stored day changes no counter; with
\* force, or when the stored day is not today, it leaves all-zero counters
\* dated today.
C5_ResetIfNewDay ==
    [][ (call'.op = "initCounters" /\ now' = now)
          => IF ~call'.args[1] /\ dailyCounters.date = Today(now)
             THEN dailyCounters' = dailyCounters
             ELSE AllZero(dailyCounters') /\ dailyCounters'.date = Today(now) ]_vars

C5_Witness ==
    /\ call.op = "initCounters"
    /\ call.args = <<FALSE>>
    /\ dailyCounters.date = Today(now)
    /\ dailyCounters.total > 0

NoRepeat(seq) == \A i, j \in 1..Len(seq) : i # j => seq[i] # seq[j]

\* C6: whatever the random draws, selectCategories(count) returns no key
\* twice and at most count keys.
C6_SelectDistinctAtMostCount ==
    call.op = "selectCategories"
        => /\ NoRepeat(call.ret)
           /\ Len(call.ret) <= call.args[1]

C6_Witness ==
    /\ call.op = "selectCategories"
    /\ call.args[1] = Cardinality(Categories)
    /\ Len(call.ret) = Cardinality(Categories)
    /\ call.ret[1] # CategoryKeys[1]
    /\ Len(BuildWeighted(1)) > Cardinality(Categories)

\* C35: the fields of an object returned by getStats are changed by its
\* caller only (no later call of the scheduler changes what the caller reads
\* in it, its byCategory counts included), and a write of the caller into the
\* object leaves dailyCounters as it is.
C35_SnapshotIndependent ==
    [][ /\ hist'.snapshot.held => hist'.snapshot.view = hist'.snapshot.value
        /\ call'.op \in {"stats.total", "stats.byCategory"}
              => dailyCounters' = dailyCounters ]_<<dailyCounters, hist.snapshot, call.op>>

\* dc2 is dc with exactly 1 added to total, to the counter of source and to the
\* count of categoryKey, and nothing else changed
AddsOne(dc, dc2, source, categoryKey) ==
    /\ dc2.date = dc.date
    /\ dc2.total = dc.total + 1
    /\ \A s \in Sources : dc2[s] = dc[s] + (IF s = source THEN 1 ELSE 0)
    /\ \A c \in Categories :
          dc2.byCategory[c] = dc.byCategory[c] + (IF c = categoryKey THEN 1 ELSE 0)

\* C36: the counters change in two ways only. An incrementCounters(source,
\* categoryKey) call adds exactly 1 to total, to the named source and to the
\* named category of the counters of today and changes no other counter; a
\* full reset replaces them all by zero, and is made only when the stored day
\* is not today or by a call that resets (initCounters, resetCounters). No
\* other step, and no write outside the scheduler, changes a counter.
C36_CountersOnlyGrow ==
    [][ \/ /\ call'.op = "incrementCounters"
           /\ AddsOne(initCounters(dailyCounters, FALSE, now), dailyCounters',
                      call'.args[1], call'.args[2])
        \/ /\ AllZero(dailyCounters')
           /\ \/ dailyCounters.date # Today(now)
              \/ call'.op \in {"initCounters", "resetCounters"}
      ]_dailyCounters

----------------------------------------------------------------------------
(* Properties of lib/dedupe.js, under SpecDedupe, SpecFilter and SpecStore *)

\* C7: isDuplicate(id, src) called right after markPosted(id, src), with id an
\* identifier, is true while less than TTL has elapsed since the markPosted
\* and false once TTL or more has elapsed.
C7_MarkThenIsDuplicate ==
    (call.op = "isDuplicate" /\ hist.since >= 0 /\ call.args[1] # NoId)
        => (call.ret = (hist.since < TTL_MS))

C7_Witness ==
    /\ call.op = "isDuplicate"
    /\ call.args[1] # NoId
    /\ hist.since >= TTL_MS
    /\ call.ret = FALSE

\* a loadFromFile that reads the file, at the instant of a saveToFile that wrote it
SaveThenLoad ==
    /\ call'.op = "loadFromFile"
    /\ call'.args[1] = "ok"
    /\ now' = now
    /\ hist.save.seen
    /\ hist.save.outcome = "ok"
    /\ hist.save.at = now

\* C8 as stated: after save() and a fresh load() the map holds exactly the
\* entries that were not expired before the save, and at most cap of them.
C8_Original ==
    [][ SaveThenLoad
          => /\ Entries(postedProducts') = Live(hist.save.before, hist.save.at)
             /\ Len(postedProducts') <= MAX_TRACKED ]_vars

\* C8 amended: after a save() that writes the file and a load() that reads it
\* at the same instant, the map holds at most cap entries, all of them entries
\* that were not expired before the save: all of those when they are at most
\* cap, else cap of them, none older than an entry that was dropped.
C8_SaveLoadKeepsNewest ==
    [][ SaveThenLoad
          => LET live   == Live(hist.save.before, hist.save.at)
                 loaded == Entries(postedProducts')
             IN  /\ loaded \subseteq live
                 /\ Cardinality(loaded) = Min(MAX_TRACKED, Cardinality(live))
                 /\ Len(postedProducts') = Cardinality(loaded)
                 /\ \A e \in live \ loaded : \A r \in loaded : e.ts <= r.ts ]_vars

C8_Witness ==
    /\ call.op = "loadFromFile"
    /\ call.args[1] = "ok"
    /\ hist.save.seen
    /\ hist.save.outcome = "ok"
    /\ hist.save.at = now
    /\ Cardinality(Live(hist.save.before, now)) > MAX_TRACKED
    /\ \E e \in Live(hist.save.before, now) : \E r \in Entries(postedProducts) : e.ts < r.ts
    /\ Len(postedProducts) = MAX_TRACKED

\* C9: filterDuplicates returns, in their order, exactly the products that
\* have an id and for which isDuplicate(id, source) is false.
C9_FilterKeepsOrder ==
    [][ (call'.op = "filterDuplicates" /\ now' = now)
          => call'.ret =
               SelectSeq(call'.args,
                         LAMBDA p : /\ p.id # NoId
                                    /\ ~isDuplicate(postedProducts, p.id, p.source, now).ret) ]_vars

C9_Witness ==
    /\ call.op = "filterDuplicates"
    /\ Len(call.args) = 3
    /\ call.args[1].id = <<"b">>
    /\ call.args[2].id = <<"a">>
    /\ call.args[3].id = <<"b">>
    /\ MapHas(postedProducts, uniqueKey(<<"a">>, "flipkart"))
    /\ call.ret = <<call.args[1], call.args[3]>>

\* a step that is a saveToFile call
SaveStep ==
    /\ call'.op = "saveToFile"
    /\ now' = now

\* m holds what a save at time t keeps of the map before: no expired entry, at
\* most cap entries, and when the entries of before that are not expired are
\* more than cap, cap of them, none older than one that was dropped
Pruned(m, before, t) ==
    LET live == Live(before, t)
    IN  /\ \A e \in Entries(m) : ~(t - e.ts >= TTL_MS)
        /\ Len(m) <= MAX_TRACKED
        /\ Entries(m) \subseteq live
        /\ Cardinality(Entries(m)) = Min(MAX_TRACKED, Cardinality(live))
        /\ \A e \in live \ Entries(m) : \A r \in Entries(m) : e.ts <= r.ts

\* C25 as stated: after every save() the map in memory and the store's file
\* hold no expired entry and at most cap entries, the newest of the entries
\* that were not expired.
C25_Original ==
    [][ SaveStep => /\ Pruned(postedProducts', postedProducts, now)
                    /\ Pruned(file'.data, postedProducts, now) ]_vars

\* C25 amended: after every save() that writes the file, the map in memory and
\* the file hold the same entries: no expired entry and at most cap entries,
\* the newest of the entries that were not expired. After a save() whose write
\* fails the map is pruned in that way, and the file is as it was or is left
\* truncated; after a save() that cannot create the data directory both are
\* as they were.
C25_SavePrunes ==
    [][ SaveStep =>
          CASE call'.args[1] = "ok" ->
                 /\ Pruned(postedProducts', postedProducts, now)
                 /\ file' = WrittenFile(postedProducts')
            [] call'.args[1] = "writeFails" ->
                 /\ Pruned(postedProducts', postedProducts, now)
                 /\ file' = file
            [] call'.args[1] = "writeTorn" ->
                 /\ Pruned(postedProducts', postedProducts, now)
                 /\ file' = TornFile
            [] call'.args[1] = "mkdirFails" ->
                 /\ postedProducts' = postedProducts
                 /\ file' = file ]_vars

\* a save that wrote the file dropped an expired entry and, for the cap, the
\* older of two entries that were not expired
C25_Witness ==
    /\ call.op = "saveToFile"
    /\ call.args[1] = "ok"
    /\ hist.save.at = now
    /\ \E e \in Entries(hist.save.before) : now - e.ts >= TTL_MS
    /\ Cardinality(Live(hist.save.before, now)) > MAX_TRACKED
    /\ Len(postedProducts) = MAX_TRACKED
    /\ file.data = postedProducts
    /\ \E e \in Live(hist.save.before, now) : \E r \in Entries(postedProducts) : e.ts < r.ts

\* C26 as stated: save() replaces the file atomically: whenever the file
\* changes, the new file is the whole document of the map being saved, so that
\* a reader sees the whole previous content or the whole new content, also
\* during a save and when the process stops in the middle of a save.
C26_AtomicReplace ==
    [][ file' # file
          => /\ file'.complete
             /\ file'.data = pruneForSave(postedProducts, now) ]_vars

\* C27 as stated: after a load() that meets no read error, the map holds
\* exactly the entries of the file that are not expired at load time, whatever
\* it held before: nothing of what an earlier invocation left in memory stays,
\* also when the file does not exist yet (the map is then empty).
C27_LoadReplacesMemory ==
    [][ (call'.op = "loadFromFile" /\ call'.args[1] = "ok" /\ now' = now)
          => /\ Entries(postedProducts') =
                   (IF file.exists /\ file.complete THEN Live(file.data, now) ELSE {})
             /\ Len(postedProducts') = Cardinality(Entries(postedProducts')) ]_vars

\* the key of the claim: source, '_' and id joined and lowercased as a whole,
\* the lowercased id when the source is empty
NormalizedKey(productId, source) ==
    IF source = "" THEN toLowerCase(productId)
    ELSE toLowerCase(<<source, "_">> \o productId)

\* the entries of m under the key k
EntriesAt(m, k) == { e \in Entries(m) : e.key = k }

\* C29: isDuplicate(id, source) is true exactly when the map holds an entry of
\* age < TTL under the normalized key of (source, id). A markPosted of a pair
\* leaves an entry of the current time under every pair of the same
\* normalized key (pairs that differ only in letter case) and changes the
\* entry of no pair with another normalized key, as is the pair of the same id
\* under a source that differs in more than letter case.
C29_NormalizedKeyDecides ==
    [][ /\ (call'.op = "isDuplicate" /\ now' = now)
            => call'.ret =
                 (\E e \in EntriesAt(postedProducts,
                                     NormalizedKey(call'.args[1], call'.args[2])) :
                     now - e.ts < TTL_MS)
        /\ (call'.op = "markPosted" /\ now' = now /\ call'.args[1] # NoId)
            => \A q \in KeyPool :
                 LET k == NormalizedKey(q[1], q[2])
                     marked == NormalizedKey(call'.args[1], call'.args[2])
                 IN  /\ IF k = marked
                        THEN EntriesAt(postedProducts', k) = {[key |-> k, ts |-> now]}
                        ELSE EntriesAt(postedProducts', k) = EntriesAt(postedProducts, k)
                     /\ (q[1] = call'.args[1] /\ LowerTok(q[2]) # LowerTok(call'.args[2]))
                           => k # marked ]_vars

\* product a is marked under flipkart only: it is a duplicate under Flipkart
\* (the call shown) and under flipkart with id A, and not under amazon
C29_Witness ==
    /\ call.op = "isDuplicate"
    /\ call.args = <<<<"a">>, "Flipkart">>
    /\ call.ret = TRUE
    /\ Len(postedProducts) = 1
    /\ postedProducts[1].key = <<"flipkart", "_", "a">>
    /\ now - postedProducts[1].ts < TTL_MS
    /\ isDuplicate(postedProducts, <<"A">>, "flipkart", now).ret
    /\ ~isDuplicate(postedProducts, <<"a">>, "amazon", now).ret

\* the normalized keys a call of isDuplicate or filterDuplicates checks
CheckedKeys(c) ==
    IF c.op = "isDuplicate" THEN {NormalizedKey(c.args[1], c.args[2])}
    ELSE { NormalizedKey(c.args[i].id, c.args[i].source) :
             i \in {j \in 1..Len(c.args) : c.args[j].id # NoId} }

\* C30: a call of isDuplicate or filterDuplicates adds no entry to the map
\* and alters none, keeps every entry that is not expired, removes only
\* expired entries under the keys it checks, and leaves the file as it is.
C30_ChecksOnlyEvictExpired ==
    [][ (call'.op \in {"isDuplicate", "filterDuplicates"} /\ now' = now)
          => /\ Entries(postedProducts') \subseteq Entries(postedProducts)
             /\ Live(postedProducts, now) \subseteq Entries(postedProducts')
             /\ \A e \in Entries(postedProducts) \ Entries(postedProducts') :
                   /\ e.key \in CheckedKeys(call')
                   /\ now - e.ts >= TTL_MS
             /\ file' = file ]_vars

\* a was marked and saved, b was marked later; the filterDuplicates call on
\* <<a, b>> met a expired and b not: a is gone from the map and returned, b is
\* kept in the map, and the file still holds a
C30_Witness ==
    /\ call.op = "filterDuplicates"
    /\ Len(call.args) = 2
    /\ call.args[1].id = <<"a">>
    /\ call.args[2].id = <<"b">>
    /\ call.ret = <<call.args[1]>>
    /\ Len(postedProducts) = 1
    /\ postedProducts[1].key = <<"flipkart", "_", "b">>
    /\ now - postedProducts[1].ts < TTL_MS
    /\ file.exists
    /\ Len(file.data) = 1
    /\ file.data[1].key = <<"flipkart", "_", "a">>
    /\ now - file.data[1].ts >= TTL_MS

\* C31: the file is changed by saveToFile only (markPosted, isDuplicate,
\* filterDuplicates and loadFromFile leave it as it is), and a process that
\* ends leaves the file as the last saveToFile call that succeeded wrote it.
C31_OnlySaveWrites ==
    [][ /\ file' # file => (call'.op = "saveToFile" /\ now' = now)
        /\ call'.op = "newProcess" => file' = hist'.stored ]_<<file, hist.stored, call.op, now>>

\* C28: no error of the store's file leaves loadFromFile or saveToFile: every
\* call of either returns, whatever the file system calls did and whether or
\* not loadFromFile was called before a saveToFile; and a loadFromFile whose
\* read or parse failed leaves an empty map.
C28_StoreErrorsStayInside ==
    /\ call.op \in {"loadFromFile", "saveToFile"} => call.ret = "returns"
    /\ (/\ call.op = "loadFromFile"
        /\ (call.args[1] = "readFails" \/ (file.exists /\ ~file.complete)))
          => postedProducts = <<>>

\* a save whose write failed midway returned, and the load that then met the
\* truncated file returned with an empty map
C28_Witness ==
    /\ call.op = "loadFromFile"
    /\ call.args[1] = "ok"
    /\ call.ret = "returns"
    /\ file.exists /\ ~file.complete
    /\ postedProducts = <<>>
    /\ hist.save.seen
    /\ hist.save.outcome = "writeTorn"
    /\ Live(hist.save.before, hist.save.at) # {}
    /\ hist.save.at = now

----------------------------------------------------------------------------
(* Properties of the posting runs of api/run.js, under Spec and SpecSession *)

\* C1: in every state of any sequence of runs, total is at most the total
\* limit, every per-source counter at most its source's cap, and every
\* per-category counter at most the category cap.
C1_CountersWithinCaps ==
    /\ dailyCounters.total <= getTotalLimit(cfg)
    /\ \A source \in Sources : dailyCounters[source] <= cfg[source]
    /\ \A c \in Categories : dailyCounters.byCategory[c] <= cfg.perCategory

C1_Witness ==
    /\ run.pc = "done"
    /\ run.results.posted = 1
    /\ dailyCounters.total = getTotalLimit(cfg)
    /\ dailyCounters.total >= 2
    /\ \E source \in Sources : dailyCounters[source] = cfg[source]
    /\ \E c \in Categories : dailyCounters.byCategory[c] = cfg.perCategory

\* C2 as stated: an item that a run posted at time t is not posted by any later
\* run before t + TTL.
C2_Original ==
    hist.repost.seen => hist.repost.gap >= TTL_MS

\* C2 amended: an item that a run posted at time t is not posted by any later
\* run before t + TTL, as long as since that post every save and load of the
\* store succeeded and no save evicted the item's entry for the size cap.
C2_NoRepostWhileStored ==
    (hist.repost.seen /\ ~hist.repost.broken) => hist.repost.gap >= TTL_MS

C2_Witness ==
    /\ run.pc = "post"
    /\ hist.blocked
    /\ hist.coldStart
    /\ \E it \in Items : /\ hist.lastPost[it].at >= 0
                         /\ ~hist.lastPost[it].broken
                         /\ now - hist.lastPost[it].at < TTL_MS
                         /\ now > hist.lastPost[it].at

\* the scenario of C10 when the posting loop is left: total cap 2, category cap
\* 1, four ranked candidates with different keys, two in each of two
\* categories, no failed post (the counters were fresh: a new process)
C10_Scenario ==
    /\ run.pc = "flush"
    /\ getTotalLimit(cfg) = 2
    /\ cfg.perCategory = 1
    /\ cfg.flipkart >= 2 /\ cfg.amazon >= 2 /\ cfg.postsPerSlot >= 2
    /\ Len(run.products) = 4
    /\ \A i, j \in 1..4 : i # j =>
          uniqueKey(run.products[i].id, run.products[i].source)
            # uniqueKey(run.products[j].id, run.products[j].source)
    /\ \A c \in Categories :
          Cardinality({i \in 1..4 : run.products[i].categoryKey = c}) = 2
    /\ run.results.failed = 0

\* C10 as stated: the run ends with posted = 2, skipped = 2 and stats.total = 2.
C10_Original ==
    C10_Scenario
        => /\ run.results.posted = 2
           /\ run.results.skipped = 2
           /\ getStats(initCounters(dailyCounters, FALSE, now)).total = 2

\* C10 amended: the run ends with posted = 2 and stats.total = 2; skipped is 1
\* when the two best ranked candidates are of the same category and 0
\* otherwise: the loop is left at the second post and no later candidate is
\* counted.
C10_TwoPostedRestNotReached ==
    C10_Scenario
        => /\ run.results.posted = 2
           /\ run.results.skipped =
                 (IF run.products[1].categoryKey = run.products[2].categoryKey THEN 1 ELSE 0)
           /\ run.idx = 3 + run.results.skipped
           /\ getStats(initCounters(dailyCounters, FALSE, now)).total = 2

C10_Witness ==
    /\ C10_Scenario
    /\ run.results.posted = 2
    /\ run.results.skipped = 1
    /\ run.products[1].discount > run.products[4].discount

\* results.posted + results.skipped + results.failed
Counted(results) == results.posted + results.skipped + results.failed

\* the loop of postProducts was left at its session-limit test, or in its
\* catch block at a rate-limit error, with a candidate not yet passed
CutShort(r) ==
    /\ r.idx <= Len(r.products)
    /\ \/ sessionLimitReached(r.results, r.postsTarget)
       \/ r.transport.calls > 0 /\ r.transport.rateLimitedAt = r.transport.calls

\* C38: every candidate that the loop of postProducts passes adds 1 to exactly
\* one of posted, skipped and failed, and a step that passes no candidate adds
\* nothing; so when the loop has ended, posted + skipped + failed is at most
\* the number of ranked candidates, equal to it exactly if the loop was not
\* cut short by the session target or a rate limit, and flipkart + amazon =
\* posted.
C38_EveryCandidateCounted ==
    [][ /\ run.pc \in {"post", "send"} =>
              /\ run'.idx - run.idx \in {0, 1}
              /\ Counted(run'.results) = Counted(run.results) + (run'.idx - run.idx)
              /\ run'.results.posted >= run.results.posted
              /\ run'.results.skipped >= run.results.skipped
              /\ run'.results.failed >= run.results.failed
              /\ run'.results.flipkart + run'.results.amazon = run'.results.posted
        /\ run'.pc = "flush" =>
              /\ Counted(run'.results) <= Len(run'.products)
              /\ Counted(run'.results) = Len(run'.products) <=> ~CutShort(run')
      ]_<<run, now>>

\* a run left at the session target after a failed, a skipped and a posted
\* candidate, with a candidate never passed
C38_Witness ==
    /\ run.pc = "flush"
    /\ run.results.posted >= 1
    /\ run.results.failed >= 1
    /\ run.results.skipped >= 1
    /\ CutShort(run)
    /\ Counted(run.results) < Len(run.products)

----------------------------------------------------------------------------
(* Properties of the transport failures, under SpecRoomy *)

\* the posting loop is left after a run of five candidates with different
\* keys, all within the caps and the session size, of which the first was
\* posted and the second was the only one to meet the rate-limit error
C11_Scenario ==
    /\ run.pc = "flush"
    /\ Len(run.products) = 5
    /\ \A i, j \in 1..5 : i # j =>
          uniqueKey(run.products[i].id, run.products[i].source)
            # uniqueKey(run.products[j].id, run.products[j].source)
    /\ run.postsTarget >= 5
    /\ \A source \in Sources :
          Cardinality({i \in 1..5 : run.products[i].source = source}) <= cfg[source]
    /\ \A c \in Categories :
          Cardinality({i \in 1..5 : run.products[i].categoryKey = c}) <= cfg.perCategory
    /\ MapHas(postedProducts, uniqueKey(run.products[1].id, run.products[1].source))
    /\ run.transport.rateLimitedAt = 2

\* C11 as stated: when the second post attempt of a run with 5 postable
\* candidates meets the rate-limit error, the run ends with posted = 1,
\* failed = 1, skipped = 0 and the transport was invoked twice only.
C11_RateLimitAborts ==
    C11_Scenario
        => /\ run.results.posted = 1
           /\ run.results.failed = 1
           /\ run.results.skipped = 0
           /\ run.transport.calls = 2

----------------------------------------------------------------------------
(* Properties of one request, under SpecSession *)

\* the handler has answered a request that validateAuth accepted
Answered ==
    /\ run.pc = "done"
    /\ call.op = "handler"
    /\ call.args[1]

\* C12 as stated: every run that gets past the initial total-cap check has
\* called dedupe.flush() (the save of the store) when it returns, however
\* its posting phase ended, also when there was nothing to post.
C12_SaveBeforeReturn ==
    (Answered /\ call.ret.message # "Daily limit reached") => run.flushed

\* C13: every request that validateAuth accepts is answered with status 200
\* and success = true, whatever the catalog calls, the transport and the
\* store's reads and writes did; an answer without success is the 401 of a
\* request that validateAuth refused.
C13_AcceptedRequestSucceeds ==
    (run.pc = "done" /\ call.op = "handler")
        => /\ call.args[1] => (call.ret.status = 200 /\ call.ret.success)
           /\ ~call.ret.success => (~call.args[1] /\ call.ret.status = 401)

C13_Witness ==
    /\ Answered
    /\ call.ret.status = 200
    /\ call.ret.success
    /\ run.flushed
    /\ run.results.posted >= 1
    /\ run.results.failed >= 1
    /\ ~file.exists

\* a step of the loop of fetchProducts
FetchStep ==
    /\ run.pc = "fetch"
    /\ run.cursor <= Len(run.selected)
    /\ run' # run

\* a step of the handler from the end of fetchProducts on
PrepareStep ==
    /\ run.pc = "fetch"
    /\ run.cursor > Len(run.selected)
    /\ run' # run

\* what a catalog call of the last iteration gave to the candidates
Contributed(r, categoryKey) ==
    IF r.called /\ ~r.failed THEN Tag(r.products, categoryKey) ELSE <<>>

\* C32: an iteration of fetchProducts adds to the candidates the products of
\* its catalog calls that did not fail, and nothing for a call that failed;
\* whether a call failed or not, the amazon call of the iteration is made when
\* canPost allows it, the loop goes on to the next category with the earlier
\* candidates kept, and after the last category a run that has a candidate
\* goes on to filtering and posting.
C32_FetchFailureIsEmptyResult ==
    [][ /\ FetchStep
            => LET categoryKey == run.selected[run.cursor]
               IN  /\ run'.pc = "fetch"
                   /\ run'.cursor = run.cursor + 1
                   /\ run'.selected = run.selected
                   /\ run'.products = run.products
                                        \o Contributed(run'.fetch.flipkart, categoryKey)
                                        \o Contributed(run'.fetch.amazon, categoryKey)
                   /\ run'.fetch.amazon.called =
                        (/\ Includes(run.sources, "amazon")
                         /\ categories[categoryKey].amazonNode
                         /\ canPost(dailyCounters', cfg, "amazon", categoryKey).allowed)
        /\ (PrepareStep /\ run.products # <<>>)
            => /\ run'.pc = "post"
               /\ run'.products =
                    LET f == filterDuplicates(postedProducts, run.products, now).ret
                    IN  SortByDiscount(f, Len(f)) ]_<<run, now>>

\* the flipkart request for mobiles failed and the amazon request for mobiles
\* gave two products, after an earlier category had given a candidate: the
\* three candidates are held and the loop is at its end
C32_Witness ==
    /\ run.pc = "fetch"
    /\ run.cursor = 3
    /\ run.fetch.flipkart.called /\ run.fetch.flipkart.failed
    /\ run.fetch.amazon.called /\ ~run.fetch.amazon.failed
    /\ Len(run.fetch.amazon.products) = 2
    /\ Len(run.products) = 3
    /\ run.products[1].categoryKey = "fashion"

\* the products of the list that have the discount d, in the order of the list
AtDiscount(products, d) == SelectSeq(products, LAMBDA q : q.discount = d)

\* C34: the list that postProducts goes through holds the candidates that
\* filterDuplicates kept, each as often as there, in non-increasing order of
\* discount, those of one discount in the order in which they were fetched;
\* the loop takes the list from its first product on, one by one.
C34_BestDiscountFirst ==
    [][ /\ (PrepareStep /\ run'.pc = "post")
            => LET kept == filterDuplicates(postedProducts, run.products, now).ret
               IN  /\ Len(run'.products) = Len(kept)
                   /\ \A i, j \in 1..Len(run'.products) :
                         i < j => run'.products[i].discount >= run'.products[j].discount
                   /\ \A d \in Discounts :
                         AtDiscount(run'.products, d) = AtDiscount(kept, d)
                   /\ run'.idx = 1
        /\ (run.pc \in {"post", "send"} /\ run' # run)
            => /\ run'.idx \in {run.idx, run.idx + 1}
               /\ run'.pc # "flush" => run'.products = run.products
               /\ run'.pc = "send" => run'.idx = run.idx ]_<<run, now>>

\* flipkart gave a at 10 and b at 20, and amazon then gave a at 20: the loop
\* starts with b of flipkart, then a of amazon, then a of flipkart
C34_Witness ==
    /\ run.pc = "post"
    /\ run.idx = 1
    /\ Len(run.products) = 3
    /\ ItemOf(run.products[1]) = <<"flipkart", <<"b">>>>
    /\ run.products[1].discount = 20
    /\ ItemOf(run.products[2]) = <<"amazon", <<"a">>>>
    /\ run.products[2].discount = 20
    /\ ItemOf(run.products[3]) = <<"flipkart", <<"a">>>>
    /\ run.products[3].discount = 10
    /\ \A i \in 1..3 : run.products[i].categoryKey = "mobiles"

----------------------------------------------------------------------------
(* Properties of the runs of a process over its days, under Spec *)

\* C14: a run makes at most postsTarget successful posts, where postsTarget is
\* min(postsPerSlot, total limit - counters.total) as the counters are when
\* the posting loop starts; with a target <= 0 the transport is not invoked.
C14_AtMostSessionTarget ==
    /\ run.pc \in {"post", "send", "flush"}
          => /\ run.results.posted <= run.postsTarget
             /\ run.transport.confirmed <= run.postsTarget
    /\ (run.pc = "post" /\ run.idx = 1)
          => run.postsTarget =
                Min(cfg.postsPerSlot, getTotalLimit(cfg) - dailyCounters.total)
    /\ (run.pc \in {"post", "send", "flush"} /\ run.postsTarget <= 0)
          => (run.transport.calls = 0 /\ run.pc # "send")

C14_Witness ==
    /\ run.pc = "flush"
    /\ run.results.posted = run.postsTarget
    /\ run.postsTarget < cfg.postsPerSlot
    /\ run.idx <= Len(run.products)

\* a step in which the handler takes up a request
RequestStep ==
    /\ run.pc \in {"idle", "done"}
    /\ call'.op = "handler"
    /\ now' = now

\* what a refused request leaves: the answer 401 and nothing else
Refused ==
    /\ call'.ret = Response(401, FALSE, "Unauthorized")
    /\ run'.pc = "done"
    /\ run'.transport.calls = 0
    /\ UNCHANGED <<postedProducts, dailyCounters, file>>

\* C15 as stated: a request that does not carry the secret is answered 401
\* and causes no load of the store, no counter change, no catalog call and
\* no transport call.
C15_UnauthenticatedRefused ==
    [][ (RequestStep /\ ~call'.args[2]) => Refused ]_vars

\* a request is being handled
InRun == run.pc \in {"fetch", "post", "send", "flush"}

\* no counter of dc is above its value in dc2
NotAbove(dc, dc2) ==
    /\ dc.total <= dc2.total
    /\ \A source \in Sources : dc[source] <= dc2[source]
    /\ \A c \in Categories : dc.byCategory[c] <= dc2.byCategory[c]

\* C16 as stated: no step of a run resets the daily counters, also when the
\* calendar day changes between two steps of the run: no counter goes down.
C16_Original ==
    [][ InRun => NotAbove(dailyCounters, dailyCounters') ]_vars

\* C16 amended: a step of a run resets the daily counters only when the
\* calendar day is no longer their date; it then replaces them by the all-zero
\* counters of the new day, to which a post of that step is added. While the
\* day is the one the run started on, the counters are those of the start of
\* the run plus the posts of the run.
C16_ResetOnlyOnDayChange ==
    [][ /\ InRun =>
            IF dailyCounters.date = Today(now)
            THEN /\ dailyCounters'.date = dailyCounters.date
                 /\ NotAbove(dailyCounters, dailyCounters')
            ELSE \/ dailyCounters' = dailyCounters
                 \/ dailyCounters' = ZeroCounters(Today(now))
                 \/ \E source \in Sources, c \in Categories :
                       dailyCounters' = incrementCounters(ZeroCounters(Today(now)), source, c)
        /\ (run'.pc \in {"post", "send", "flush"} /\ run'.stats.date = Today(now'))
              => /\ dailyCounters'.date = run'.stats.date
                 /\ dailyCounters'.total = run'.stats.total + run'.results.posted
      ]_vars

C16_Witness ==
    /\ run.pc = "post"
    /\ run.results.posted >= 1
    /\ run.stats.date # Today(now)
    /\ dailyCounters.date = Today(now)
    /\ dailyCounters.total < run.stats.total + run.results.posted

\* C17: when the counters of today have total >= the total limit as a run
\* starts, the run answers 'Daily limit reached' with the current stats and
\* selects no category, calls no catalog and no transport, and leaves the
\* counters and the store's file as they were.
C17_LimitReachedStopsRun ==
    [][ (/\ RequestStep
         /\ call'.args[1]
         /\ initCounters(dailyCounters, FALSE, now).total >= getTotalLimit(cfg))
        => /\ call'.ret = Response(200, TRUE, "Daily limit reached")
           /\ run'.pc = "done"
           /\ run'.stats = getStats(dailyCounters)
           /\ run'.selected = <<>>
           /\ run'.products = <<>>
           /\ run'.transport.calls = 0
           /\ UNCHANGED <<dailyCounters, file>> ]_vars

C17_Witness ==
    /\ run.pc = "done"
    /\ call.op = "handler"
    /\ call.ret.message = "Daily limit reached"
    /\ run.stats.total = getTotalLimit(cfg)
    /\ run.stats.total >= 2
    /\ file.exists

\* C19: markPosted and incrementCounters are called for a candidate only when
\* postDeal confirmed its post. While the day is the one the run started on,
\* counters.total has grown by results.posted, which is the number of posts
\* the transport confirmed. A candidate whose post fails without a rate limit
\* leaves the counters and the mapping as they were, adds one to failed, and
\* the loop goes on with the next candidate.
C19_RecordOnlyConfirmedPosts ==
    [][ /\ (run'.pc \in {"post", "send", "flush"} /\ run'.stats.date = Today(now'))
              => /\ dailyCounters'.total - run'.stats.total = run'.results.posted
                 /\ run'.results.posted = run'.transport.confirmed
        /\ (InRun /\ run.pc # "send")
              => /\ NotAbove(dailyCounters', dailyCounters)
                 /\ Entries(postedProducts') \subseteq Entries(postedProducts)
        /\ (run.pc = "send" /\ run' # run)
              => LET product == run.products[run.idx]
                     key     == uniqueKey(product.id, product.source)
                 IN  IF run'.transport.confirmed = run.transport.confirmed
                     THEN run'.transport.rateLimitedAt # run'.transport.calls
                            => /\ UNCHANGED <<dailyCounters, postedProducts>>
                               /\ run'.results = [run.results EXCEPT !.failed = @ + 1]
                               /\ run'.pc = "post"
                               /\ run'.idx = run.idx + 1
                     ELSE /\ MapHas(postedProducts', key)
                          /\ MapGet(postedProducts', key) = now
                          /\ dailyCounters'.total =
                                initCounters(dailyCounters, FALSE, now).total + 1
                          /\ run'.results.posted = run.results.posted + 1
      ]_vars

C19_Witness ==
    /\ run.pc = "post"
    /\ run.stats.date = Today(now)
    /\ run.idx = 3
    /\ run.results.posted = 1
    /\ run.results.failed = 1
    /\ ~MapHas(postedProducts, uniqueKey(run.products[1].id, run.products[1].source))
    /\ MapHas(postedProducts, uniqueKey(run.products[2].id, run.products[2].source))
    /\ dailyCounters.total = run.stats.total + 1

\* C20: a candidate that canPost refuses is counted as skipped, the transport
\* is not invoked for it, and the loop goes on with the next candidate; a
\* later candidate that canPost allows and that is no duplicate is handed to
\* the transport in the same run; the loop ends only at the end of the list or
\* when the session target is reached.
C20_SkipAndContinue ==
    [][ (run.pc = "post" /\ now' = now /\ run' # run)
          => LET ended   == \/ run.idx > Len(run.products)
                            \/ sessionLimitReached(run.results, run.postsTarget)
                 product == run.products[run.idx]
                 cp      == canPost(initCounters(dailyCounters, FALSE, now), cfg,
                                    product.source, product.categoryKey)
                 d       == isDuplicate(postedProducts, product.id, product.source, now)
             IN  /\ (run'.pc = "flush") => ended
                 /\ (~ended /\ ~cp.allowed)
                       => /\ run'.results = [run.results EXCEPT !.skipped = @ + 1]
                          /\ run'.transport = run.transport
                          /\ run'.pc = "post"
                          /\ run'.idx = run.idx + 1
                 /\ (~ended /\ cp.allowed /\ ~d.ret)
                       => /\ run'.pc = "send"
                          /\ run'.idx = run.idx
                          /\ run'.results = run.results
      ]_vars

\* a candidate is at the transport after an earlier one of the run, that was no
\* duplicate, had been refused by canPost
C20_Witness ==
    /\ run.pc = "send"
    /\ run.results.skipped >= 1
    /\ run.results.failed = 0
    /\ \E i \in 1..(run.idx - 1) :
          /\ ~MapHas(postedProducts, uniqueKey(run.products[i].id, run.products[i].source))
          /\ ~canPost(dailyCounters, cfg, run.products[i].source,
                      run.products[i].categoryKey).allowed

\* C21 as stated: within one run no item (same source and id, so the same
\* normalized key) is posted twice, also when it is several times among the
\* fetched candidates.
C21_Original ==
    ~hist.again.seen

\* C21 amended: within one run no item is posted again before TTL has elapsed
\* since its previous post of the run: until then the isDuplicate check of the
\* posting loop makes every later occurrence of the item skipped.
C21_NoSecondPostWithinTTL ==
    hist.again.seen => hist.again.gap >= TTL_MS

\* the second candidate has the key of the first, which the run posted, and was
\* skipped although canPost allows it
C21_Witness ==
    /\ run.pc = "post"
    /\ run.idx = 3
    /\ ItemOf(run.products[1]) = ItemOf(run.products[2])
    /\ ItemOf(run.products[1]) \in hist.thisRun
    /\ run.results.posted = 1
    /\ run.results.skipped = 1
    /\ run.results.failed = 0
    /\ canPost(dailyCounters, cfg, run.products[2].source,
               run.products[2].categoryKey).allowed
    /\ ~sessionLimitReached(run.results, run.postsTarget)

\* the source is in the list of getSourcePriority and the category has a
\* catalog handle for it
Mapped(source, categoryKey) ==
    /\ Includes(run.sources, source)
    /\ IF source = "flipkart" THEN categories[categoryKey].flipkartId
       ELSE categories[categoryKey].amazonNode

\* C33 as stated: in the iteration of a selected category each source of the
\* list for which the category has a handle is requested once, flipkart first.
C33_Original ==
    [][ FetchStep
          => LET categoryKey == run.selected[run.cursor]
             IN  /\ run'.cursor = run.cursor + 1
                 /\ run'.fetch.flipkart.called = Mapped("flipkart", categoryKey)
                 /\ run'.fetch.amazon.called = Mapped("amazon", categoryKey)
                 /\ run'.products = run.products
                                      \o Contributed(run'.fetch.flipkart, categoryKey)
                                      \o Contributed(run'.fetch.amazon, categoryKey) ]_<<run, now>>

\* C33: each selected category has one iteration, in which flipkart is
\* requested once exactly when it is in the list and the category has a
\* flipkart handle, and amazon is requested once, after flipkart, exactly when
\* it is in the list, the category has an amazon handle and canPost allows a
\* post for amazon in the category at that moment.
C33_FetchEachMappedSourceOnce ==
    [][ FetchStep
          => LET categoryKey == run.selected[run.cursor]
             IN  /\ run'.cursor = run.cursor + 1
                 /\ NoRepeat(run.selected)
                 /\ run'.fetch.flipkart.called = Mapped("flipkart", categoryKey)
                 /\ run'.fetch.amazon.called =
                      (/\ Mapped("amazon", categoryKey)
                       /\ canPost(dailyCounters', cfg, "amazon", categoryKey).allowed)
                 /\ run'.products = run.products
                                      \o Contributed(run'.fetch.flipkart, categoryKey)
                                      \o Contributed(run'.fetch.amazon, categoryKey) ]_<<run, now>>

\* mobiles is at its category cap with room under the other caps: flipkart
\* was requested for it and amazon, which is in the list, was not
C33_Witness ==
    /\ run.pc = "fetch"
    /\ run.cursor > 1
    /\ run.selected[run.cursor - 1] = "mobiles"
    /\ Includes(run.sources, "amazon")
    /\ run.fetch.flipkart.called
    /\ ~run.fetch.amazon.called
    /\ dailyCounters.byCategory["mobiles"] >= cfg.perCategory
    /\ dailyCounters.total < getTotalLimit(cfg)

----------------------------------------------------------------------------
(* Properties of the environment flags, under SpecEnv *)

\* C22: getTotalLimit returns the number that OVERRIDE_TOTAL_LIMIT denotes
\* whenever that variable is set, in sale mode or not; otherwise the sale-mode
\* cap when SALE_MODE is true (in any letter case); otherwise the normal cap;
\* and it changes neither the counters nor any other state.
C22_OverrideThenSaleThenNormal ==
    [][ (call'.op = "getTotalLimit" /\ now' = now)
          => /\ \E o \in Overrides :
                   /\ o.text = cfg.OVERRIDE_TOTAL_LIMIT
                   /\ call'.ret[1] = IF o.text # Unset THEN o.value
                                     ELSE IF cfg.SALE_MODE \in {<<"true">>, <<"TRUE">>}
                                          THEN cfg.saleMode
                                     ELSE cfg.total
             /\ UNCHANGED <<cfg, now, dailyCounters, postedProducts, file, run>> ]_vars

C22_Witness ==
    /\ call.op = "getTotalLimit"
    /\ cfg.OVERRIDE_TOTAL_LIMIT = <<"1", "0">>
    /\ cfg.SALE_MODE = <<"TRUE">>
    /\ call.ret = <<10>>
    /\ call.ret[1] # cfg.saleMode
    /\ dailyCounters.total > 0

----------------------------------------------------------------------------
(* Properties of canPost under limits with missing and zero caps, under SpecLimits *)

\* C18 as stated: canPost answers OK iff total < the total cap, the source's
\* counter < the source's cap (10 when no cap is configured for it) and the
\* category's counter < the category cap (4 when not configured); else it
\* answers the first reason in the order total, source, category.
C18_CanPostIff ==
    call.op = "canPost" =>
        LET source      == call.args[1]
            categoryKey == call.args[2]
            sourceCap   == IF cfg[source] = Undefined THEN 10 ELSE cfg[source]
            categoryCap == IF cfg.perCategory = Undefined THEN 4 ELSE cfg.perCategory
        IN  call.ret =
              IF dailyCounters.total >= getTotalLimit(cfg)
                THEN [allowed |-> FALSE, reason |-> <<"Daily total limit reached">>]
              ELSE IF dailyCounters[source] >= sourceCap
                THEN [allowed |-> FALSE, reason |-> <<"Daily", source, "limit reached">>]
              ELSE IF dailyCounters.byCategory[categoryKey] >= categoryCap
                THEN [allowed |-> FALSE, reason |-> <<"Category", categoryKey, "limit reached">>]
              ELSE [allowed |-> TRUE, reason |-> <<"OK">>]

\* C23 as stated: getSourcePriority returns exactly the sources whose counter
\* is below the cap that canPost applies to that source (the configured cap,
\* or 10 when there is none), flipkart before amazon, and nothing else
\* decides the result.
C23_SourcesBelowCap ==
    call.op = "getSourcePriority" =>
        call.ret = SelectSeq(<<"flipkart", "amazon">>,
                             LAMBDA source :
                                dailyCounters[source]
                                  < OrDefault(cfg[source], DefaultSourceLimit))

----------------------------------------------------------------------------
(* Properties of selectCategories run step by step, under SpecSelect *)

\* C24: whatever indexes the random draws give and whatever count is, a
\* selectCategories call returns, and it returns min(count, number of
\* categories) keys, none when count <= 0, each a key of categories.json, in
\* the order in which they were drawn.
C24_SelectTerminates ==
    /\ [](call.op = "selectCategories"
            => LET count == call.args[1]
                   drawn == call.args[2]
               IN  /\ Len(call.ret) = IF count <= 0 THEN 0
                                      ELSE Min(count, Cardinality(Categories))
                   /\ \A i \in 1..Len(call.ret) : call.ret[i] \in Categories
                   /\ call.ret = drawn)
    /\ (call.op = "selectCategories.loop") ~> (call.op = "selectCategories")

C24_Witness ==
    /\ call.op = "selectCategories"
    /\ call.args[1] > Cardinality(Categories)
    /\ Len(call.ret) = Cardinality(Categories)
    /\ call.ret[1] = CategoryKeys[2]

----------------------------------------------------------------------------
(* Properties of lib/telegram.js, under SpecTransport *)

\* what the caller of sendMessageWithRetry gets: the response or null, or an
\* error thrown
SeenOfSend(result) ==
    [data |-> result.data, threw |-> result.threw, message |-> result.message]

\* what the caller of postDeal gets: the boolean returned, or an error thrown
SeenOfDeal(result) ==
    [ret |-> result.ret, threw |-> result.threw, message |-> result.message]

\* C37: one sendMessageWithRetry call makes at most maxRetries + 1 attempts
\* (exactly 1 when retryOnFailure is off), none after the first accepted one
\* and none after a rate-limit error; and what the caller gets when the
\* message was given up at a rate-limit error differs from what it gets for a
\* message given up after ordinary errors, from sendMessageWithRetry as from
\* postDeal.
C37_RetriesBoundedRateLimitReported ==
    /\ call.op = "sendMessageWithRetry" =>
          LET replies == textReplies(cfg, call.args[1])
              result  == call.ret
          IN  /\ result.requests >= 1
              /\ result.requests <= cfg.maxRetries + 1
              /\ ~cfg.retryOnFailure => result.requests = 1
              /\ \A n \in 1..(result.requests - 1) : replies[n] = "error"
              /\ result.data <=> replies[result.requests] = "ok"
              /\ result.rateLimited <=> replies[result.requests] = "rateLimit"
              /\ result.rateLimited =>
                    \A other \in ReplySeqs :
                       LET given == sendMessageWithRetry(other, maxRetriesOf(cfg))
                       IN  (~given.data /\ ~given.rateLimited)
                              => SeenOfSend(given) # SeenOfSend(result)
    /\ call.op = "postDeal" =>
          LET result == call.ret
          IN  result.rateLimited =>
                 \A other \in DealTransports :
                    LET given == postDeal(cfg, other)
                    IN  (~given.confirmed /\ ~given.rateLimited)
                           => SeenOfDeal(given) # SeenOfDeal(result)

\* sendPhoto was called and the Bot API accepted the photo
photoAccepted(c, t, result) ==
    result.photoTried /\ ~getCredentials(c).threw /\ t.photo = "ok"

\* the requests of one postDeal call that the Bot API accepted
Accepted(c, t, result) ==
    (IF photoAccepted(c, t, result) THEN 1 ELSE 0)
      + (IF /\ result.textTried
            /\ sendMessageWithRetry(textReplies(c, t.text), maxRetriesOf(c)).data
         THEN 1 ELSE 0)

\* C39 as stated: one postDeal call delivers at most one message; it calls
\* the text send only if no image url was given or the photo send was made
\* and failed, and never after an accepted photo; it returns true exactly if
\* a message was delivered, and no error leaves it.
C39_Original ==
    call.op = "postDeal" =>
        LET imageUrl == call.args[1]
            t        == call.args[2]
            result   == call.ret
        IN  /\ result.delivered = Accepted(cfg, t, result)
            /\ result.delivered <= 1
            /\ result.textTried =>
                  \/ imageUrl = NoImage
                  \/ result.photoTried /\ ~photoAccepted(cfg, t, result)
            /\ photoAccepted(cfg, t, result) => ~result.textTried
            /\ result.ret <=> result.delivered >= 1
            /\ ~result.threw

\* C39 amended: one postDeal call delivers at most one message; it calls the
\* photo send exactly if an image url starting with 'http' was given, and the
\* text send only if no such url was given or the photo send was made and
\* failed, never after an accepted photo; it returns true exactly if a
\* message was delivered, and no error leaves it.
C39_OneMessagePerDeal ==
    call.op = "postDeal" =>
        LET imageUrl == call.args[1]
            t        == call.args[2]
            result   == call.ret
        IN  /\ result.delivered = Accepted(cfg, t, result)
            /\ result.delivered <= 1
            /\ result.photoTried <=> hasHttpImage(imageUrl)
            /\ result.textTried =>
                  \/ ~hasHttpImage(imageUrl)
                  \/ result.photoTried /\ ~photoAccepted(cfg, t, result)
            /\ photoAccepted(cfg, t, result) => ~result.textTried
            /\ result.ret <=> result.delivered >= 1
            /\ ~result.threw

\* a photo that was refused, followed by a text message accepted at the
\* second request
C39_Witness ==
    /\ call.op = "postDeal"
    /\ hasHttpImage(call.args[1])
    /\ call.args[2].photo = "error"
    /\ call.args[2].text[1] = "error"
    /\ call.ret.photoTried
    /\ call.ret.textTried
    /\ call.ret.delivered = 1
    /\ call.ret.ret

====
